---- MODULE Spec2Model ----
(***************************************************************************)
(* Model of the tahweel-ui backend (src-tauri): the retry executor and the *)
(* three Google Drive operations of google_drive.rs, and the parallel page *)
(* splitting and the single-page extraction of pdf.rs.                     *)
(*                                                                         *)
(* Error descriptions, response bodies and file names are strings; the     *)
(* substring tests, the formatting and the sort act on their characters.   *)
(***************************************************************************)
EXTENDS Naturals, Integers, Sequences, FiniteSets, TLC

VARIABLES
    script,     \* retry: the operation f, as the outcome of its j-th invocation
    rpc,        \* retry: position in execute_with_retry: "idle", "call", "sleep", "done"
    retries,    \* retry: `retries`
    calls,      \* retry: number of times f was invoked
    sleeps,     \* retry: number of completed sleep(delay).await
    delay,      \* retry: the `delay` of the last sleep: delay_secs and jitter
    result,     \* retry: what execute_with_retry returned
    errText,    \* classify: the error description under classification
    verdict,    \* classify: "none", or is_retriable of errText: "transient", "permanent"
    op,         \* remote: the command running: "none", "upload", "export", "delete"
    fileExists, \* remote: whether upload's local path exists
    remote,     \* remote: the identifiers of the documents on the drive
    lastResp,   \* remote: the answer to the last request sent
    file_content, \* remote: the bytes upload read from the local file, "" before
    file_name,  \* remote: the name upload generated for the document, "" before
    disk,       \* remote: how often the local file has been rewritten since Init
    names_made, \* remote: number of names Uuid::new_v4() has been asked for
    posts,      \* remote: the name and bytes of every POST upload has built
    effected,   \* remote: number of requests of this call the drive carried out
    libFound,   \* split: whether find_pdfium_library finds the library
    docValid,   \* split: whether the file at pdf_path loads as a PDF
    docPages,   \* split: the number of pages of the document
    totalPages, \* split: the argument total_pages
    temp_path_str, \* split: the temp directory of the job, "" while there is none
    spc,        \* split: position in split_pdf: "idle", "start", "parallel", "done"
    task,       \* split: per page index: "todo", "saved", "counted", "done", "failed"
    count,      \* split: per page index: the task's local `count`
    processed_count, \* split: the shared atomic counter
    events,     \* split: the progress events, in the order of their emission
    files,      \* split: the files of the temp directory, with the page each holds
    rendered,   \* split: per document page: how often it was rendered
    held,       \* split: per page index: the binding and document the task made
    bindings,   \* split: number of Pdfium::bind_to_library calls that returned Ok
    documents,  \* split: number of load_pdf_from_file calls that returned Ok
    results,    \* split: per page index: what the closure returned
    splitResult, \* split: what split_pdf returned
    page_number, \* extract: the argument page_number, a u32
    output_path, \* extract: the argument output_path
    overflow_checks, \* extract: whether the build checks integer overflow
    epc,        \* extract: position in extract_pdf_page: "idle", "start", "loaded",
                \*          "got", "done", "panicked"
    page_index, \* extract: the u16 index handed to document.pages().get, -1 before
    dpi,        \* extract: the argument dpi, a u32
    render_config, \* extract: target width and maximum height handed to the renderer
    extractResult, \* extract: what extract_pdf_page returned
    file_path,  \* mime: the local path handed to upload_to_google_drive
    mime_type,  \* mime: the content type chosen for it, "" before
    target_os,  \* library: the operating system the build targets
    resource_dir, \* library: what app.path().resource_dir() returns
    exe_dir,    \* library: the directory of current_exe(), if there is one
    existing,   \* library: the candidate paths that exist
    libResult,  \* library: what find_pdfium_library returned
    cleanup_path, \* cleanup: the argument path
    fs_history, \* cleanup: the file system at the start and after each call
    cleanup_results, \* cleanup: what each call of cleanup_temp_dir returned
    token_file, \* auth: the token file: absent, not StoredTokens, or StoredTokens
    clock,      \* auth: how many hours have passed since Init
    auth_op,    \* auth: the command called last
    auth_arg,   \* auth: the refresh_token argument of the last refresh
    token_resp, \* auth: the last answer of the token endpoint
    auth_result, \* auth: what the last command returned
    streak,     \* auth: whether only successful refreshes have run, and the refresh
                \*       token issued last
    flow_pc,    \* auth: position in start_oauth_flow
    port_bound, \* auth: whether the listener on port 3027 exists
    browser_opened, \* auth: whether open::that has been called
    answers,    \* auth: the request line and the status answered, per connection
    exchanges   \* auth: the codes sent to the token endpoint by the flow

retryVars == <<script, rpc, retries, calls, sleeps, delay, result>>
classifyVars == <<errText, verdict>>
uploadVars == <<file_content, file_name, disk, names_made, posts>>
remoteVars == <<op, fileExists, remote, lastResp, uploadVars, effected>>
splitVars ==
    <<libFound, docValid, docPages, totalPages, temp_path_str, spc, task, count,
      processed_count, events, files, rendered, held, bindings, documents, results,
      splitResult>>
extractVars ==
    <<page_number, output_path, overflow_checks, epc, page_index, dpi, render_config,
      extractResult>>
mimeVars == <<file_path, mime_type>>
libraryVars == <<target_os, resource_dir, exe_dir, existing, libResult>>
cleanupVars == <<cleanup_path, fs_history, cleanup_results>>
tokenVars ==
    <<token_file, clock, auth_op, auth_arg, token_resp, auth_result, streak>>
flowVars == <<flow_pc, port_bound, browser_opened, answers, exchanges>>
authVars == <<tokenVars, flowVars>>
helperVars == <<mimeVars, libraryVars, cleanupVars, authVars>>
vars == <<retryVars, classifyVars, remoteVars, splitVars, extractVars, helperVars>>

NoResult == [ok |-> FALSE, val |-> "<none>"]
Ok(v) == [ok |-> TRUE, val |-> v]
Err(e) == [ok |-> FALSE, val |-> e]

Min(a, b) == IF a < b THEN a ELSE b

(***************************************************************************)
(* Strings                                                                 *)
(***************************************************************************)

\* str::contains(pat): pat occurs in s as a contiguous substring
Contains(s, pat) ==
    \E i \in 1..(Len(s) + 1 - Len(pat)) : SubSeq(s, i, i + Len(pat) - 1) = pat

UpperCase == "ABCDEFGHIJKLMNOPQRSTUVWXYZ"
LowerCase == "abcdefghijklmnopqrstuvwxyz"

\* one character, lower-cased
LowerChar(c) ==
    IF \E i \in 1..26 : SubSeq(UpperCase, i, i) = c
    THEN LET i == CHOOSE i \in 1..26 : SubSeq(UpperCase, i, i) = c
         IN  SubSeq(LowerCase, i, i)
    ELSE c

\* str::to_lowercase, for ASCII text
RECURSIVE ToLower(_)
ToLower(s) ==
    IF Len(s) = 0 THEN ""
    ELSE LowerChar(SubSeq(s, 1, 1)) \o ToLower(SubSeq(s, 2, Len(s)))

(***************************************************************************)
(* execute_with_retry                                                      *)
(***************************************************************************)

max_retries == 5

IsRetriableNever(e) == FALSE

IsRetriableAlways(e) == TRUE

\* `is_retriable` of execute_with_retry
IsRetriable(e) ==
    \/ Contains(e, "429")
    \/ Contains(e, "500")
    \/ Contains(e, "502")
    \/ Contains(e, "503")
    \/ Contains(e, "504")
    \/ Contains(e, "timeout")
    \/ Contains(e, "Timeout")

(***************************************************************************)
(* The delay: delay_secs is a ratio of integers (1.5^r = 3^r / 2^r, which  *)
(* f64 holds exactly), the jitter is a 32-bit value over u32::MAX.  A      *)
(* 32-bit value is held as two 16-bit halves.                              *)
(***************************************************************************)

RECURSIVE Pow(_, _)
Pow(b, n) == IF n = 0 THEN 1 ELSE b * Pow(b, n - 1)

Ratio(n, d) == [num |-> n, den |-> d]

\* a <= b, for ratios of positive denominators
RatLeq(a, b) == a.num * b.den <= b.num * a.den

\* f64::min
RatMin(a, b) == IF RatLeq(a, b) THEN a ELSE b

\* 1.5_f64.powi(r)
Powi(r) == Ratio(Pow(3, r), Pow(2, r))

DelaySecsAfterIncrement(r) == RatMin(Powi(r + 1), Ratio(15, 1))

DelaySecsCapFive(r) == RatMin(Powi(r), Ratio(5, 1))

\* `(1.5_f64.powi(retries as i32)).min(15.0)`
DelaySecs(r) == RatMin(Powi(r), Ratio(15, 1))

U32(h, l) == [hi |-> h, lo |-> l]

\* u32::MAX
U32_MAX == U32(65535, 65535)

\* a < b, for 32-bit values
U32Less(a, b) == a.hi < b.hi \/ (a.hi = b.hi /\ a.lo < b.lo)

\* u32::from_le_bytes([bytes[0], bytes[1], bytes[2], bytes[3]])
FromLeBytes(b) == U32(b[4] * 256 + b[3], b[2] * 256 + b[1])

\* the first four bytes a Uuid::new_v4() may have, the extremes included
UuidBytes ==
    {<<0, 0, 0, 0>>, <<1, 0, 0, 128>>, <<254, 255, 255, 255>>, <<255, 255, 255, 255>>}

RandomJitterOverI32Max(b) == Ratio(FromLeBytes(b), U32(32767, 65535))

\* `(random_u32 as f64) / (u32::MAX as f64)`, as the ratio of the two
RandomJitter(b) == Ratio(FromLeBytes(b), U32_MAX)

\* jitter < 1.0: the quotient of two exact f64 values is below 1 exactly
\* when the dividend is below the divisor
JitterBelowOne(j) == U32Less(j.num, j.den)

\* jitter = 1.0
JitterIsOne(j) == j.num = j.den

\* no sleep yet
NoDelay == [delay_secs |-> Ratio(0, 1), jitter |-> Ratio(U32(0, 0), U32_MAX)]

GivesUpOneLate(e, r) == ~IsRetriable(e) \/ r >= max_retries + 1

GivesUpOffByOne(e, r) == ~IsRetriable(e) \/ r + 1 >= max_retries

\* `if !is_retriable || retries >= max_retries { return Err(e); }`
GivesUp(e, r) == ~IsRetriable(e) \/ r >= max_retries

\* One iteration of the loop, from f().await to the return or to the sleep,
\* given the outcome `out` of this invocation of f.
ExecuteWithRetryCallKeepsFirstError(out) ==
    /\ rpc = "call"
    /\ calls' = calls + 1
    /\ IF out.ok
       THEN /\ rpc' = "done"
            /\ result' = out
       ELSE IF GivesUp(out.val, retries)
       THEN /\ rpc' = "done"
            /\ result' = IF result = NoResult THEN out ELSE result
       ELSE /\ rpc' = "sleep"
            /\ result' = IF result = NoResult THEN out ELSE result
    /\ UNCHANGED <<retries, sleeps, delay>>

ExecuteWithRetryCallSleepsLast(out) ==
    /\ rpc = "call"
    /\ calls' = calls + 1
    /\ IF out.ok
       THEN /\ rpc' = "done"
            /\ result' = out
            /\ sleeps' = sleeps
       ELSE IF GivesUp(out.val, retries)
       THEN /\ rpc' = "done"
            /\ result' = out
            /\ sleeps' = sleeps + 1
       ELSE /\ rpc' = "sleep"
            /\ result' = result
            /\ sleeps' = sleeps
    /\ UNCHANGED <<retries, delay>>

ExecuteWithRetryCall(out) ==
    /\ rpc = "call"
    /\ calls' = calls + 1
    /\ IF out.ok
       THEN /\ rpc' = "done"
            /\ result' = out
       ELSE IF GivesUp(out.val, retries)
       THEN /\ rpc' = "done"
            /\ result' = out
       ELSE /\ rpc' = "sleep"
            /\ result' = result
    /\ UNCHANGED <<retries, sleeps, delay>>

\* delay_secs, jitter, sleep(delay).await returns; retries += 1; next iteration
ExecuteWithRetrySleep ==
    /\ rpc = "sleep"
    /\ \E b \in UuidBytes :
          delay' = [delay_secs |-> DelaySecs(retries), jitter |-> RandomJitter(b)]
    /\ sleeps' = sleeps + 1
    /\ retries' = retries + 1
    /\ rpc' = "call"
    /\ UNCHANGED <<calls, result>>

(***************************************************************************)
(* The executor on a scripted operation (the closures of the tests, which  *)
(* count their invocations and answer by the count)                        *)
(***************************************************************************)

OK_SUCCESS == Ok("success after retries")
ERR_429 == Err("Rate limit (429): Too many requests")
ERR_500 == Err("Server error (500): Always fails")
ERR_TIMEOUT == Err("Connection timeout")
ERR_400 == Err("Bad Request (400): Invalid")
ERR_401 == Err("Unauthorized (401): Invalid token")
ERR_403 == Err("Forbidden (403): Access denied")
ERR_404 == Err("Not found (404): File does not exist")

TransientErrors == {ERR_429, ERR_500, ERR_TIMEOUT}
PermanentErrors == {ERR_400, ERR_401, ERR_403, ERR_404}

\* what the first invocation of the operation may return
ScriptOutcomes == {OK_SUCCESS} \cup TransientErrors \cup PermanentErrors

\* what its later invocations may return
LaterOutcomes == {OK_SUCCESS, ERR_429, ERR_500, ERR_404}

\* one more invocation than the executor may make, and one beyond that
ScriptLen == max_retries + 2

\* the outcome of the operation's next invocation
NextOutcome == script[Min(calls + 1, ScriptLen)]

InitClassifyIdle ==
    /\ errText = ""
    /\ verdict = "none"

NoResponse == [status |-> 0, body |-> "", acted |-> FALSE]

InitRemoteIdle ==
    /\ op = "none"
    /\ fileExists = FALSE
    /\ remote = {}
    /\ lastResp = NoResponse
    /\ file_content = ""
    /\ file_name = ""
    /\ disk = 0
    /\ names_made = 0
    /\ posts = <<>>
    /\ effected = 0

NoSplitResult == [ok |-> FALSE, image_paths |-> <<>>, temp_dir |-> "", err |-> "<none>"]

InitSplitIdle ==
    /\ libFound = FALSE
    /\ docValid = FALSE
    /\ docPages = 0
    /\ totalPages = 0
    /\ temp_path_str = ""
    /\ spc = "idle"
    /\ task = <<>>
    /\ count = <<>>
    /\ processed_count = 0
    /\ events = <<>>
    /\ files = {}
    /\ rendered = <<>>
    /\ held = <<>>
    /\ bindings = 0
    /\ documents = 0
    /\ results = <<>>
    /\ splitResult = NoSplitResult

NoConfig == [width |-> -1, height |-> -1]

InitExtractIdle ==
    /\ page_number = [hi |-> 0, lo |-> 0]
    /\ output_path = ""
    /\ overflow_checks = FALSE
    /\ epc = "idle"
    /\ page_index = -1
    /\ dpi = [hi |-> 0, lo |-> 0]
    /\ render_config = NoConfig
    /\ extractResult = NoResult

InitMimeIdle ==
    /\ file_path = ""
    /\ mime_type = ""

InitLibraryIdle ==
    /\ target_os = "linux"
    /\ resource_dir = NoResult
    /\ exe_dir = NoResult
    /\ existing = {}
    /\ libResult = NoResult

InitCleanupIdle ==
    /\ cleanup_path = ""
    /\ fs_history = <<>>
    /\ cleanup_results = <<>>

\* a token file that does not exist
NO_FILE == [kind |-> "none", access_token |-> "", refresh_token |-> "", expires_at |-> <<0, 0, 0, 0>>]

\* a body that serde_json does not read as TokenResponse
NOT_JSON ==
    [valid |-> FALSE, access_token |-> "", refresh_token |-> [some |-> FALSE, val |-> ""],
     expires_in |-> <<0, 0, 0, 0>>]

\* no answer of the token endpoint yet
NoTokenAnswer == [status |-> 0, text |-> "<none>", json |-> NOT_JSON]

InitAuthIdle ==
    /\ token_file = NO_FILE
    /\ clock = 0
    /\ auth_op = "none"
    /\ auth_arg = ""
    /\ token_resp = NoTokenAnswer
    /\ auth_result = NoResult
    /\ streak = [active |-> FALSE, chained |-> FALSE, latest |-> ""]
    /\ flow_pc = "idle"
    /\ port_bound = FALSE
    /\ browser_opened = FALSE
    /\ answers = <<>>
    /\ exchanges = <<>>

InitHelpersIdle ==
    /\ InitMimeIdle
    /\ InitLibraryIdle
    /\ InitCleanupIdle
    /\ InitAuthIdle

InitRetry ==
    /\ script \in {<<first>> \o later : first \in ScriptOutcomes,
                                         later \in [1..(ScriptLen - 1) -> LaterOutcomes]}
    /\ rpc = "call"
    /\ retries = 0
    /\ calls = 0
    /\ sleeps = 0
    /\ delay = NoDelay
    /\ result = NoResult
    /\ InitClassifyIdle
    /\ InitRemoteIdle
    /\ InitSplitIdle
    /\ InitExtractIdle
    /\ InitHelpersIdle

Invoke ==
    /\ ExecuteWithRetryCall(NextOutcome)
    /\ UNCHANGED <<script, classifyVars, remoteVars, splitVars, extractVars, helperVars>>

Sleep ==
    /\ ExecuteWithRetrySleep
    /\ UNCHANGED <<script, classifyVars, remoteVars, splitVars, extractVars, helperVars>>

NextRetry == Invoke \/ Sleep

SpecRetry == InitRetry /\ [][NextRetry]_vars

\* every invocation of the operation and every sleep returns
SpecRetryReturning == SpecRetry /\ WF_vars(Invoke) /\ WF_vars(Sleep)

(***************************************************************************)
(* The classification of execute_with_retry on error descriptions          *)
(***************************************************************************)

\* descriptions are put together from at most MaxParts fragments, so that a
\* marker may lie inside a fragment or across two or three of them
MaxParts == 3

Fragments ==
    {"42", "9", "50", "0", "3", "4", "40", "time", "Time", "TIME", "out",
     "OUT", "Out", " (", "): "}

\* the error descriptions of the tests test_is_retriable_* / test_is_not_retriable_*
TestDescriptions ==
    {"Connection timeout",
     "Connection Timeout occurred",
     "Unauthorized (401): Invalid token",
     "Not found (404): File does not exist",
     "Bad Gateway (502): Upstream server error",
     "Service Unavailable (503): Try again later",
     "Gateway Timeout (504): Request timed out",
     "Bad Request (400): Invalid parameters",
     "Forbidden (403): Access denied",
     "Rate limit (429): Too many requests",
     "Server error (500): Always fails"}

RECURSIVE Joined(_)
Joined(parts) ==
    IF parts = <<>> THEN "" ELSE Head(parts) \o Joined(Tail(parts))

Descriptions ==
    TestDescriptions \cup
    {Joined(parts) : parts \in UNION {[1..n -> Fragments] : n \in 1..MaxParts}}

InitRetryIdle ==
    /\ script = <<>>
    /\ rpc = "idle"
    /\ retries = 0
    /\ calls = 0
    /\ sleeps = 0
    /\ delay = NoDelay
    /\ result = NoResult

InitClassify ==
    /\ errText \in Descriptions
    /\ verdict = "none"
    /\ InitRetryIdle
    /\ InitRemoteIdle
    /\ InitSplitIdle
    /\ InitExtractIdle
    /\ InitHelpersIdle

\* Err(e) => { let is_retriable = ... }
Classify ==
    /\ verdict = "none"
    /\ verdict' = IF IsRetriable(errText) THEN "transient" ELSE "permanent"
    /\ UNCHANGED <<errText, retryVars, remoteVars, splitVars, extractVars, helperVars>>

NextClassify == Classify

SpecClassify == InitClassify /\ [][NextClassify]_vars

(***************************************************************************)
(* upload_to_google_drive, export_google_doc_as_text and                   *)
(* delete_google_drive_file: each sends one request per invocation of its  *)
(* closure under execute_with_retry.  The drive answers each request with  *)
(* a status and a body (status 0: the request failed in transport), and    *)
(* may have acted on it whatever it answers.                               *)
(***************************************************************************)

Digit(d) == SubSeq("0123456789", d + 1, d + 1)

\* "{}" of an unsigned integer
RECURSIVE Dec(_)
Dec(n) == IF n < 10 THEN Digit(n) ELSE Dec(n \div 10) \o Digit(n % 10)

\* http::StatusCode::canonical_reason
CanonicalReason(st) ==
    CASE st = 200 -> "OK"
      [] st = 204 -> "No Content"
      [] st = 400 -> "Bad Request"
      [] st = 401 -> "Unauthorized"
      [] st = 403 -> "Forbidden"
      [] st = 404 -> "Not Found"
      [] st = 408 -> "Request Timeout"
      [] st = 429 -> "Too Many Requests"
      [] st = 500 -> "Internal Server Error"
      [] st = 502 -> "Bad Gateway"
      [] st = 503 -> "Service Unavailable"
      [] st = 504 -> "Gateway Timeout"
      [] OTHER -> "<unknown status code>"

\* "{}" of a reqwest::StatusCode: the number and the canonical reason
StatusDisplay(st) == Dec(st) \o " " \o CanonicalReason(st)

\* StatusCode::is_success
IsSuccess(st) == st >= 200 /\ st < 300

\* reqwest::Error as a string, for a request that got no response
SEND_ERROR == "error sending request for url"

\* reqwest::Error as a string, for a body that is not the expected JSON
DECODE_ERROR == "error decoding response body"

\* format!("{what} failed ({}): {}", status, text)
FailureText(what, resp) ==
    what \o " failed (" \o StatusDisplay(resp.status) \o "): " \o resp.body

\* the body of a successful upload: {"id":"<id>"}
IdJson(id) == "{\"id\":\"" \o id \o "\"}"

\* response.json::<DriveFile>(): the body is an object whose "id" is a string
IsDriveFile(body) ==
    /\ Len(body) >= 9
    /\ SubSeq(body, 1, 7) = "{\"id\":\""
    /\ SubSeq(body, Len(body) - 1, Len(body)) = "\"}"
    /\ ~Contains(SubSeq(body, 8, Len(body) - 2), "\"")

DriveFileId(body) == SubSeq(body, 8, Len(body) - 2)

\* the closure of upload_to_google_drive, on the answer to its request
UploadOutcome(resp) ==
    IF resp.status = 0 THEN Err(resp.body)
    ELSE IF ~IsSuccess(resp.status) THEN Err(FailureText("Upload", resp))
    ELSE IF IsDriveFile(resp.body) THEN Ok(DriveFileId(resp.body))
    ELSE Err(DECODE_ERROR)

\* the closure of export_google_doc_as_text, on the answer to its request
ExportOutcome(resp) ==
    IF resp.status = 0 THEN Err(resp.body)
    ELSE IF ~IsSuccess(resp.status) THEN Err(FailureText("Export", resp))
    ELSE Ok(resp.body)

DeleteOutcomeNotFoundIsSuccess(resp) ==
    IF resp.status = 0 THEN Err(resp.body)
    ELSE IF ~IsSuccess(resp.status) /\ resp.status \notin {204, 404}
    THEN Err(FailureText("Delete", resp))
    ELSE Ok("")

DeleteOutcomeOnly200(resp) ==
    IF resp.status = 0 THEN Err(resp.body)
    ELSE IF resp.status # 200 THEN Err(FailureText("Delete", resp))
    ELSE Ok("")

\* the closure of delete_google_drive_file, on the answer to its request
DeleteOutcome(resp) ==
    IF resp.status = 0 THEN Err(resp.body)
    ELSE IF ~IsSuccess(resp.status) /\ resp.status # 204
    THEN Err(FailureText("Delete", resp))
    ELSE Ok("")

(***************************************************************************)
(* The drive                                                               *)
(***************************************************************************)

\* the local path given to upload, and the identifier given to export/delete
FILE_PATH == "/tmp/page-0001.png"
FILE_ID == "abc"

ErrorStatuses == {400, 401, 403, 404, 408, 429, 500, 502, 503, 504}

\* statuses with which a request that was carried out may still be answered
GatewayStatuses == {500, 502, 503, 504}

ErrorBodies == {"", "Access denied", "File not found: 1x500y"}

\* bodies of an answer to DELETE that reports success
DeletedBodies == {"", "not json"}

ExportedTexts == {"", "extracted text from OCR"}

\* the identifier the drive gives the next document it creates
FreshId == "f" \o Dec(Cardinality(remote) + 1)

Response(st, body, acted) == [status |-> st, body |-> body, acted |-> acted]

\* a request the drive did not carry out
Refusals ==
    {Response(st, b, FALSE) : st \in ErrorStatuses, b \in ErrorBodies}
    \cup {Response(0, SEND_ERROR, FALSE)}

\* a request the drive carried out, answered as failed or not answered
LostAnswers ==
    {Response(st, b, TRUE) : st \in GatewayStatuses, b \in ErrorBodies}
    \cup {Response(0, SEND_ERROR, TRUE)}

UploadResponses ==
    {Response(200, IdJson(FreshId), TRUE), Response(200, "", TRUE)}
    \cup LostAnswers \cup Refusals

ExportResponses ==
    IF FILE_ID \in remote
    THEN {Response(200, t, TRUE) : t \in ExportedTexts}
         \cup {r \in Refusals : r.status # 404}
    ELSE Refusals

DeleteResponses ==
    IF FILE_ID \in remote
    THEN {Response(st, b, TRUE) : st \in {200, 204}, b \in DeletedBodies}
         \cup LostAnswers \cup {r \in Refusals : r.status # 404}
    ELSE Refusals

\* how often the local file is rewritten while upload runs, at most
MaxRewrites == 1

\* the bytes of the local file after v rewrites
FileBytes(v) == "PNG bytes, version " \o Dec(v + 1)

\* Uuid::new_v4().to_string(): a name that differs from every one made before
UuidName(made) == "1f0c7a52-9d3e-4b6a-8c21-00000000000" \o Dec(made + 1)

READ_ERROR == "Permission denied (os error 13)"

Post(name, bytes) == [name |-> name, content |-> bytes]

InitRemote ==
    /\ op = "none"
    /\ fileExists \in BOOLEAN
    /\ remote \in {{}, {FILE_ID}}
    /\ lastResp = NoResponse
    /\ file_content = ""
    /\ file_name = ""
    /\ disk = 0
    /\ names_made = 0
    /\ posts = <<>>
    /\ effected = 0
    /\ InitRetryIdle
    /\ InitClassifyIdle
    /\ InitSplitIdle
    /\ InitExtractIdle
    /\ InitHelpersIdle

StartUploadUnchecked ==
    /\ op = "none"
    /\ op' = "upload"
    /\ rpc' = "call"
    /\ file_content' = FileBytes(disk)
    /\ file_name' = UuidName(names_made)
    /\ names_made' = names_made + 1
    /\ UNCHANGED <<script, retries, calls, sleeps, delay, result, fileExists, remote,
                   lastResp, disk, posts, effected, classifyVars, splitVars,
                   extractVars, helperVars>>

\* upload_to_google_drive up to the call of execute_with_retry
StartUpload ==
    /\ op = "none"
    /\ op' = "upload"
    /\ IF ~fileExists
       THEN /\ rpc' = "done"
            /\ result' = Err("File not found: " \o FILE_PATH)
            /\ UNCHANGED <<file_content, file_name, names_made>>
       ELSE \/ /\ rpc' = "done"
               /\ result' = Err(READ_ERROR)
               /\ UNCHANGED <<file_content, file_name, names_made>>
            \/ /\ rpc' = "call"
               /\ result' = result
               /\ file_content' = FileBytes(disk)
               /\ file_name' = UuidName(names_made)
               /\ names_made' = names_made + 1
    /\ UNCHANGED <<script, retries, calls, sleeps, delay, fileExists, remote, lastResp,
                   disk, posts, effected, classifyVars, splitVars, extractVars,
                   helperVars>>

\* export_google_doc_as_text up to the call of execute_with_retry
StartExport ==
    /\ op = "none"
    /\ op' = "export"
    /\ rpc' = "call"
    /\ UNCHANGED <<script, retries, calls, sleeps, delay, result, fileExists, remote,
                   lastResp, uploadVars, effected, classifyVars, splitVars,
                   extractVars, helperVars>>

\* delete_google_drive_file up to the call of execute_with_retry
StartDelete ==
    /\ op = "none"
    /\ op' = "delete"
    /\ rpc' = "call"
    /\ UNCHANGED <<script, retries, calls, sleeps, delay, result, fileExists, remote,
                   lastResp, uploadVars, effected, classifyVars, splitVars,
                   extractVars, helperVars>>

\* the local file is written anew by another program while upload runs
RewriteFile ==
    /\ op = "upload"
    /\ rpc \in {"call", "sleep"}
    /\ disk < MaxRewrites
    /\ disk' = disk + 1
    /\ UNCHANGED <<retryVars, op, fileExists, remote, lastResp, file_content,
                   file_name, names_made, posts, effected, classifyVars, splitVars,
                   extractVars, helperVars>>

\* an invocation of upload's closure that makes its own name
SendUploadFreshName ==
    /\ op = "upload"
    /\ posts' = Append(posts, Post(UuidName(names_made), file_content))
    /\ names_made' = names_made + 1
    /\ \E resp \in UploadResponses :
          /\ lastResp' = resp
          /\ remote' = IF resp.acted THEN remote \cup {FreshId} ELSE remote
          /\ effected' = IF resp.acted THEN effected + 1 ELSE effected
          /\ ExecuteWithRetryCall(UploadOutcome(resp))
    /\ UNCHANGED <<script, op, fileExists, file_content, file_name, disk,
                   classifyVars, splitVars, extractVars, helperVars>>

\* one invocation of upload's closure: the form of file_name and
\* file_content.clone(), POST, the answer, the executor's step
SendUpload ==
    /\ op = "upload"
    /\ posts' = Append(posts, Post(file_name, file_content))
    /\ \E resp \in UploadResponses :
          /\ lastResp' = resp
          /\ remote' = IF resp.acted THEN remote \cup {FreshId} ELSE remote
          /\ effected' = IF resp.acted THEN effected + 1 ELSE effected
          /\ ExecuteWithRetryCall(UploadOutcome(resp))
    /\ UNCHANGED <<script, op, fileExists, file_content, file_name, disk, names_made,
                   classifyVars, splitVars, extractVars, helperVars>>

\* one invocation of export's closure: GET, the answer, the executor's step
SendExport ==
    /\ op = "export"
    /\ \E resp \in ExportResponses :
          /\ lastResp' = resp
          /\ effected' = IF resp.acted THEN effected + 1 ELSE effected
          /\ ExecuteWithRetryCall(ExportOutcome(resp))
    /\ UNCHANGED <<script, op, fileExists, remote, uploadVars, classifyVars, splitVars,
                   extractVars, helperVars>>

\* one invocation of delete's closure: DELETE, the answer, the executor's step
SendDelete ==
    /\ op = "delete"
    /\ \E resp \in DeleteResponses :
          /\ lastResp' = resp
          /\ remote' = IF resp.acted THEN remote \ {FILE_ID} ELSE remote
          /\ effected' = IF resp.acted THEN effected + 1 ELSE effected
          /\ ExecuteWithRetryCall(DeleteOutcome(resp))
    /\ UNCHANGED <<script, op, fileExists, uploadVars, classifyVars, splitVars,
                   extractVars, helperVars>>

\* the executor's sleep between two requests
Backoff ==
    /\ op \in {"upload", "export", "delete"}
    /\ ExecuteWithRetrySleep
    /\ UNCHANGED <<script, remoteVars, classifyVars, splitVars, extractVars, helperVars>>

NextRemote ==
    \/ StartUpload
    \/ RewriteFile
    \/ StartExport
    \/ StartDelete
    \/ SendUpload
    \/ SendExport
    \/ SendDelete
    \/ Backoff

SpecRemote == InitRemote /\ [][NextRemote]_vars


(***************************************************************************)
(* find_pdfium_library: the candidate paths of the native library, probed  *)
(* in order.                                                               *)
(***************************************************************************)

\* PathBuf::join, for a relative name
JoinPath(dir, name) == dir \o "/" \o name

\* lib_name
LibName(os) ==
    CASE os = "windows" -> "pdfium.dll"
      [] os = "macos" -> "libpdfium.dylib"
      [] OTHER -> "libpdfium.so"

\* search_paths, as the three groups are pushed
SearchPaths(os, res, exe) ==
    (IF res.ok
     THEN <<JoinPath(res.val, LibName(os)),
            JoinPath(JoinPath(res.val, "resources"), LibName(os))>>
     ELSE <<>>)
    \o <<JoinPath("resources", LibName(os)),
         JoinPath("src-tauri/resources", LibName(os))>>
    \o (IF exe.ok
        THEN <<JoinPath(exe.val, LibName(os)),
               JoinPath(JoinPath(exe.val, "../Resources"), LibName(os))>>
        ELSE <<>>)

\* {:?} of the elements of a Vec<PathBuf>, separated by ", "
RECURSIVE DebugItems(_)
DebugItems(paths) ==
    IF Len(paths) = 0 THEN ""
    ELSE "\"" \o Head(paths) \o "\""
         \o (IF Len(paths) = 1 THEN "" ELSE ", " \o DebugItems(Tail(paths)))

\* format!("PDFium library '{}' not found. Searched: {:?}", lib_name, search_paths)
LibraryError(os, paths) ==
    "PDFium library '" \o LibName(os) \o "' not found. Searched: ["
    \o DebugItems(paths) \o "]"

\* the loop that returns the last path that exists
LastExisting(os, paths, ex) ==
    LET hits == {i \in 1..Len(paths) : paths[i] \in ex}
    IN  IF hits = {} THEN Err(LibraryError(os, paths))
        ELSE Ok(paths[CHOOSE i \in hits : \A j \in hits : j <= i])

\* for path in &search_paths { if path.exists() { return Ok(path.clone()) } }
\* and the error after the loop
FirstExisting(os, paths, ex) ==
    LET hits == {i \in 1..Len(paths) : paths[i] \in ex}
    IN  IF hits = {} THEN Err(LibraryError(os, paths))
        ELSE Ok(paths[CHOOSE i \in hits : \A j \in hits : i <= j])

RESOURCE_DIR == "/usr/lib/tahweel"
EXE_DIR == "/usr/bin"

TargetSystems == {"windows", "macos", "linux"}
\* the resource directory may be the executable's own directory
ResourceDirs == {Ok(RESOURCE_DIR), Ok(EXE_DIR), Err("unknown path")}
ExeDirs == {Ok(EXE_DIR), Err("no current executable")}

Candidates(os, res, exe) ==
    {SearchPaths(os, res, exe)[i] : i \in 1..Len(SearchPaths(os, res, exe))}

InitLibrary ==
    /\ target_os \in TargetSystems
    /\ resource_dir \in ResourceDirs
    /\ exe_dir \in ExeDirs
    /\ existing \in SUBSET Candidates(target_os, resource_dir, exe_dir)
    /\ libResult = NoResult
    /\ InitMimeIdle
    /\ InitCleanupIdle
    /\ InitAuthIdle
    /\ InitRetryIdle
    /\ InitClassifyIdle
    /\ InitRemoteIdle
    /\ InitSplitIdle
    /\ InitExtractIdle

\* find_pdfium_library
FindPdfiumLibrary ==
    /\ libResult = NoResult
    /\ libResult' =
           FirstExisting(target_os, SearchPaths(target_os, resource_dir, exe_dir),
                         existing)
    /\ UNCHANGED <<target_os, resource_dir, exe_dir, existing, mimeVars, cleanupVars,
                   authVars, retryVars, classifyVars, remoteVars, splitVars, extractVars>>

NextLibrary == FindPdfiumLibrary

SpecLibrary == InitLibrary /\ [][NextLibrary]_vars
(***************************************************************************)
(* split_pdf: one task per page index, run by the workers of rayon's pool. *)
(* A worker runs a task from its start to its end; the tasks of different  *)
(* workers interleave at the file write, at the fetch_add on               *)
(* processed_count and at the emit.                                        *)
(***************************************************************************)

\* the largest page count of a document and of the total_pages argument
MaxPages == 3

\* the threads of rayon's pool
NumWorkers == 2

\* the names TempDir::new() may give the directory of a job: ".tmp" and six
\* random characters, under the system's temp directory
TempDirs == {"/tmp/.tmpQ7xK2a", "/tmp/.tmpB3nW9c"}

\* "{:04}": decimal, padded with zeros to at least 4 characters
Pad4(n) ==
    LET d == Dec(n)
    IN  IF Len(d) >= 4 THEN d ELSE SubSeq("0000", 1, 4 - Len(d)) \o d

PageFileNameUnpadded(page) == "page-" \o Dec(page) \o ".png"

\* format!("page-{:04}.png", page_num + 1), given page = page_num + 1
PageFileName(page) == "page-" \o Pad4(page) \o ".png"

\* PathBuf::from(temp_path).join(file name), as a string
OutputPath(page_num) == JoinPath(temp_path_str, PageFileName(page_num + 1))

\* (0..total_pages).collect()
PageIndices(total) == 0..(total - 1)

DocumentPageOneBased(page_num) == (page_num + 1) % 65536

\* `page_num as u16`: the index handed to document.pages().get
DocumentPageOf(page_num) == page_num % 65536

\* one more rendering of document page p
Counted(rc, p) ==
    IF p \in DOMAIN rc THEN [rc EXCEPT ![p] = @ + 1] ELSE rc @@ (p :> 1)

NewCountStale(old) == old

\* processed_count.fetch_add(1, Relaxed) + 1, given the value fetched
NewCount(old) == old + 1

(***************************************************************************)
(* f32 arithmetic on values >= 0: a value is mant * 2^(-exp) with a mant   *)
(* of at most 24 bits, and every operation rounds its exact result to the  *)
(* nearest such value, ties to the even mantissa.  The operands here keep  *)
(* every intermediate below 2^31 while total_pages < 128.                  *)
(***************************************************************************)

\* a / b rounded to the nearest integer, ties to even
RoundHalfEven(a, b) ==
    LET fl == a \div b
        rem == a % b
    IN  IF 2 * rem < b THEN fl
        ELSE IF 2 * rem > b THEN fl + 1
        ELSE fl + (fl % 2)

\* the least e with x * 2^e >= lo
RECURSIVE ScaleUp(_, _)
ScaleUp(x, lo) == IF x >= lo THEN 0 ELSE 1 + ScaleUp(2 * x, lo)

\* the least s with n / 2^s < 2^24
RECURSIVE ScaleDown(_)
ScaleDown(n) == IF n < Pow(2, 24) THEN 0 ELSE 1 + ScaleDown(n \div 2)

F32(m, e) == [mant |-> m, exp |-> e]

\* `count as f32 / total_pages as f32`
F32Div(cnt, total) ==
    IF cnt = 0 THEN F32(0, 0)
    ELSE LET e == ScaleUp(cnt, Pow(2, 23) * total)
         IN  F32(RoundHalfEven(cnt * Pow(2, e), total), e)

\* `q * 100.0`
F32Times100(q) ==
    LET n == q.mant * 100
        s == ScaleDown(n)
    IN  F32(RoundHalfEven(n, Pow(2, s)), q.exp - s)

\* f32::round of a value below 2^23: to the nearest integer, halves away
\* from zero
F32Round(p) ==
    IF p.exp = 0 THEN p.mant
    ELSE (p.mant + Pow(2, p.exp - 1)) \div Pow(2, p.exp)

\* ((count as f32 / total_pages as f32) * 100.0).round()
Percentage(cnt, total) == F32Round(F32Times100(F32Div(cnt, total)))

SplitProgress(cnt, total) ==
    [current_page |-> cnt, total_pages |-> total, percentage |-> Percentage(cnt, total)]

\* the characters of paths, in the order of their bytes
ByteOrder == "-./0123456789ABCDEFGHIJKLMNOPQRSTUVWXYZ_abcdefghijklmnopqrstuvwxyz"

ByteRank ==
    [c \in {SubSeq(ByteOrder, i, i) : i \in 1..Len(ByteOrder)} |->
        CHOOSE i \in 1..Len(ByteOrder) : SubSeq(ByteOrder, i, i) = c]

\* a < b as Rust compares Strings: byte by byte, a proper prefix first
RECURSIVE StrLess(_, _)
StrLess(a, b) ==
    IF Len(b) = 0 THEN FALSE
    ELSE IF Len(a) = 0 THEN TRUE
    ELSE LET x == ByteRank[SubSeq(a, 1, 1)]
             y == ByteRank[SubSeq(b, 1, 1)]
         IN  IF x # y THEN x < y
             ELSE StrLess(SubSeq(a, 2, Len(a)), SubSeq(b, 2, Len(b)))

RECURSIVE InsertSorted(_, _)
InsertSorted(s, x) ==
    IF s = <<>> THEN <<x>>
    ELSE IF StrLess(x, Head(s)) THEN <<x>> \o s
    ELSE <<Head(s)>> \o InsertSorted(Tail(s), x)

\* Vec<String>::sort
RECURSIVE SortStrings(_)
SortStrings(s) ==
    IF s = <<>> THEN <<>>
    ELSE InsertSorted(SortStrings(SubSeq(s, 1, Len(s) - 1)), s[Len(s)])

TEMP_DIR_ERROR == "Failed to create temp directory: permission denied"
BIND_ERROR == "Failed to bind to PDFium library: cannot load library"
LOAD_ERROR == "Failed to load PDF: the file is not a valid PDF"
LIBRARY_ERROR ==
    LibraryError("linux", SearchPaths("linux", Ok(RESOURCE_DIR), Ok(EXE_DIR)))

GetPageError(page_num) ==
    "Failed to get page " \o Dec(page_num + 1) \o ": page index out of bounds"
RenderError(page_num) ==
    "Failed to render page " \o Dec(page_num + 1) \o ": render failed"
SaveError(page_num) ==
    "Failed to save page " \o Dec(page_num + 1) \o " as PNG: write failed"

\* the errors with which the closure may return for page_num
PageErrors(page_num) ==
    {BIND_ERROR} \cup
    (IF ~docValid THEN {LOAD_ERROR}
     ELSE IF DocumentPageOf(page_num) >= docPages THEN {GetPageError(page_num)}
     ELSE {RenderError(page_num), SaveError(page_num)})

\* a task that has made no binding and no document
NoHandles == [binding |-> 0, document |-> 0, live |-> FALSE]

NewHandleShared(made) == 1

\* the handle a bind_to_library or load_pdf_from_file call returns, given the
\* number of handles of its kind made before: a new object each time
NewHandle(made) == made + 1

\* the binding and the document a task makes before it fails with e
HandlesBefore(e) ==
    [binding |-> IF e = BIND_ERROR THEN 0 ELSE NewHandle(bindings),
     document |-> IF e \in {BIND_ERROR, LOAD_ERROR} THEN 0 ELSE NewHandle(documents),
     live |-> FALSE]

splitArgs == <<libFound, docValid, docPages, totalPages>>
handleVars == <<held, bindings, documents>>
otherThanSplit == <<retryVars, classifyVars, remoteVars, extractVars, helperVars>>

InitSplit ==
    /\ libFound \in BOOLEAN
    /\ docValid \in BOOLEAN
    /\ docPages \in 1..MaxPages
    /\ totalPages \in 0..MaxPages
    /\ temp_path_str = ""
    /\ spc = "start"
    /\ task = <<>>
    /\ count = <<>>
    /\ processed_count = 0
    /\ events = <<>>
    /\ files = {}
    /\ rendered = <<>>
    /\ held = <<>>
    /\ bindings = 0
    /\ documents = 0
    /\ results = <<>>
    /\ splitResult = NoSplitResult
    /\ InitRetryIdle
    /\ InitClassifyIdle
    /\ InitRemoteIdle
    /\ InitExtractIdle
    /\ InitHelpersIdle

\* tasks a worker is in the middle of
InFlight == {i \in DOMAIN task : task[i] \in {"saved", "counted"}}

\* split_pdf that makes its temp directory before it looks for the library
StartSplitTempDirFirst ==
    /\ spc = "start"
    /\ \/ /\ ~libFound
          /\ temp_path_str' \in TempDirs
          /\ spc' = "done"
          /\ splitResult' = [NoSplitResult EXCEPT !.err = LIBRARY_ERROR]
          /\ UNCHANGED <<task, count, held, results>>
       \/ /\ libFound
          /\ spc' = "done"
          /\ splitResult' = [NoSplitResult EXCEPT !.err = TEMP_DIR_ERROR]
          /\ UNCHANGED <<temp_path_str, task, count, held, results>>
       \/ /\ libFound
          /\ temp_path_str' \in TempDirs
          /\ spc' = "parallel"
          /\ task' = [i \in PageIndices(totalPages) |-> "todo"]
          /\ count' = [i \in PageIndices(totalPages) |-> 0]
          /\ held' = [i \in PageIndices(totalPages) |-> NoHandles]
          /\ results' = [i \in PageIndices(totalPages) |-> NoResult]
          /\ UNCHANGED splitResult
    /\ UNCHANGED <<splitArgs, processed_count, events, files, rendered,
                   bindings, documents, otherThanSplit>>

\* split_pdf up to the parallel phase: the library, the temp directory, the
\* counter and the page indices
StartSplit ==
    /\ spc = "start"
    /\ \/ /\ ~libFound
          /\ spc' = "done"
          /\ splitResult' = [NoSplitResult EXCEPT !.err = LIBRARY_ERROR]
          /\ UNCHANGED <<temp_path_str, task, count, held, results>>
       \/ /\ libFound
          /\ spc' = "done"
          /\ splitResult' = [NoSplitResult EXCEPT !.err = TEMP_DIR_ERROR]
          /\ UNCHANGED <<temp_path_str, task, count, held, results>>
       \/ /\ libFound
          /\ temp_path_str' \in TempDirs
          /\ spc' = "parallel"
          /\ task' = [i \in PageIndices(totalPages) |-> "todo"]
          /\ count' = [i \in PageIndices(totalPages) |-> 0]
          /\ held' = [i \in PageIndices(totalPages) |-> NoHandles]
          /\ results' = [i \in PageIndices(totalPages) |-> NoResult]
          /\ UNCHANGED splitResult
    /\ UNCHANGED <<splitArgs, processed_count, events, files, rendered,
                   bindings, documents, otherThanSplit>>

\* a free worker takes page_num: bind, load, get the page, render, save
RenderAndSave(i) ==
    /\ spc = "parallel"
    /\ task[i] = "todo"
    /\ Cardinality(InFlight) < NumWorkers
    /\ docValid
    /\ DocumentPageOf(i) < docPages
    /\ task' = [task EXCEPT ![i] = "saved"]
    /\ held' = [held EXCEPT ![i] = [binding |-> NewHandle(bindings),
                                    document |-> NewHandle(documents),
                                    live |-> TRUE]]
    /\ bindings' = bindings + 1
    /\ documents' = documents + 1
    /\ rendered' = Counted(rendered, DocumentPageOf(i))
    /\ files' = {f \in files : f.path # OutputPath(i)}
                   \cup {[path |-> OutputPath(i), page |-> DocumentPageOf(i)]}
    /\ UNCHANGED <<splitArgs, temp_path_str, spc, count,
                   processed_count, events, results, splitResult, otherThanSplit>>

\* a free worker takes page_num and one of the steps before the counter
\* fails: the closure returns the error through `?` and drops what it made
FailPage(i) ==
    /\ spc = "parallel"
    /\ task[i] = "todo"
    /\ Cardinality(InFlight) < NumWorkers
    /\ \E e \in PageErrors(i) :
          /\ results' = [results EXCEPT ![i] = Err(e)]
          /\ held' = [held EXCEPT ![i] = HandlesBefore(e)]
          /\ bindings' = IF e = BIND_ERROR THEN bindings ELSE bindings + 1
          /\ documents' = IF e \in {BIND_ERROR, LOAD_ERROR}
                          THEN documents ELSE documents + 1
          /\ rendered' = IF e = SaveError(i)
                         THEN Counted(rendered, DocumentPageOf(i))
                         ELSE rendered
    /\ task' = [task EXCEPT ![i] = "failed"]
    /\ UNCHANGED <<splitArgs, temp_path_str, spc, count,
                   processed_count, events, files, splitResult, otherThanSplit>>

FetchAddBeforeSave(i) ==
    /\ spc = "parallel"
    /\ task[i] \in {"todo", "saved"}
    /\ count' = [count EXCEPT ![i] = NewCount(processed_count)]
    /\ processed_count' = processed_count + 1
    /\ task' = [task EXCEPT ![i] = "counted"]
    /\ UNCHANGED <<splitArgs, temp_path_str, spc, events, files,
                   rendered, handleVars, results, splitResult, otherThanSplit>>

\* let count = processed_count.fetch_add(1, Ordering::Relaxed) + 1
FetchAdd(i) ==
    /\ spc = "parallel"
    /\ task[i] = "saved"
    /\ count' = [count EXCEPT ![i] = NewCount(processed_count)]
    /\ processed_count' = processed_count + 1
    /\ task' = [task EXCEPT ![i] = "counted"]
    /\ UNCHANGED <<splitArgs, temp_path_str, spc, events, files,
                   rendered, handleVars, results, splitResult, otherThanSplit>>

\* app.emit("split-progress", ...) and the closure's Ok(output_path), at
\* which the task's document and binding are dropped
Emit(i) ==
    /\ spc = "parallel"
    /\ task[i] = "counted"
    /\ events' = Append(events, SplitProgress(count[i], totalPages))
    /\ results' = [results EXCEPT ![i] = Ok(OutputPath(i))]
    /\ held' = [held EXCEPT ![i].live = FALSE]
    /\ task' = [task EXCEPT ![i] = "done"]
    /\ UNCHANGED <<splitArgs, temp_path_str, spc, count, processed_count, files,
                   rendered, bindings, documents, splitResult, otherThanSplit>>

\* the results in the order of the page indices (rayon's indexed collect)
ResultList == [k \in 1..totalPages |-> results[k - 1]]

\* the Err of the highest index
LastError ==
    LET bad == {k \in 1..Len(ResultList) : ~ResultList[k].ok}
    IN  ResultList[CHOOSE k \in bad : \A m \in bad : m <= k].val

\* results.into_iter().collect::<Result<Vec<_>, _>>(): the first Err, by index
FirstError ==
    LET bad == {k \in 1..Len(ResultList) : ~ResultList[k].ok}
    IN  ResultList[CHOOSE k \in bad : \A m \in bad : k <= m].val

\* the paths of the tasks that returned Ok, in the order of the page indices
RECURSIVE OkPaths(_)
OkPaths(rl) ==
    IF rl = <<>> THEN <<>>
    ELSE (IF Head(rl).ok THEN <<Head(rl).val>> ELSE <<>>) \o OkPaths(Tail(rl))

CollectPartial ==
    /\ spc = "parallel"
    /\ \A i \in DOMAIN task : task[i] \in {"done", "failed"}
    /\ spc' = "done"
    /\ splitResult' =
          [ok |-> TRUE,
           image_paths |-> SortStrings(OkPaths(ResultList)),
           temp_dir |-> temp_path_str,
           err |-> ""]
    /\ UNCHANGED <<splitArgs, temp_path_str, task, count, processed_count, events,
                   files, rendered, handleVars, results, otherThanSplit>>

CollectAtFirstError ==
    /\ spc = "parallel"
    /\ \/ \A i \in DOMAIN task : task[i] \in {"done", "failed"}
       \/ /\ \E i \in DOMAIN task : task[i] = "failed"
          /\ InFlight = {}
    /\ spc' = "done"
    /\ IF \E i \in DOMAIN task : task[i] = "failed"
       THEN splitResult' = [NoSplitResult EXCEPT !.err = FirstError]
       ELSE splitResult' =
               [ok |-> TRUE,
                image_paths |-> SortStrings([k \in 1..Len(ResultList) |-> ResultList[k].val]),
                temp_dir |-> temp_path_str,
                err |-> ""]
    /\ UNCHANGED <<splitArgs, temp_path_str, task, count, processed_count, events,
                   files, rendered, handleVars, results, otherThanSplit>>

\* the parallel phase is over: collect, `?`, sort, return
Collect ==
    /\ spc = "parallel"
    /\ \A i \in DOMAIN task : task[i] \in {"done", "failed"}
    /\ spc' = "done"
    /\ IF \E i \in DOMAIN task : task[i] = "failed"
       THEN splitResult' = [NoSplitResult EXCEPT !.err = FirstError]
       ELSE splitResult' =
               [ok |-> TRUE,
                image_paths |-> SortStrings([k \in 1..Len(ResultList) |-> ResultList[k].val]),
                temp_dir |-> temp_path_str,
                err |-> ""]
    /\ UNCHANGED <<splitArgs, temp_path_str, task, count, processed_count, events,
                   files, rendered, handleVars, results, otherThanSplit>>

NextSplit ==
    \/ StartSplit
    \/ \E i \in DOMAIN task : RenderAndSave(i)
    \/ \E i \in DOMAIN task : FailPage(i)
    \/ \E i \in DOMAIN task : FetchAdd(i)
    \/ \E i \in DOMAIN task : Emit(i)
    \/ Collect

SpecSplit == InitSplit /\ [][NextSplit]_vars

(***************************************************************************)
(* The progress counter and the events of a job of up to MaxTotal pages    *)
(* whose pages all succeed, the tasks taken one at a time: each task's     *)
(* fetch_add and emit.                                                     *)
(***************************************************************************)

\* the largest total_pages of these jobs
MaxTotal == 40

InitProgress ==
    /\ totalPages \in 1..MaxTotal
    /\ spc = "counting"
    /\ processed_count = 0
    /\ events = <<>>
    /\ libFound = TRUE
    /\ docValid = TRUE
    /\ docPages = totalPages
    /\ temp_path_str = ""
    /\ task = <<>>
    /\ count = <<>>
    /\ files = {}
    /\ rendered = <<>>
    /\ held = <<>>
    /\ bindings = 0
    /\ documents = 0
    /\ results = <<>>
    /\ splitResult = NoSplitResult
    /\ InitRetryIdle
    /\ InitClassifyIdle
    /\ InitRemoteIdle
    /\ InitExtractIdle
    /\ InitHelpersIdle

\* processed_count.fetch_add(1, Relaxed) + 1 and app.emit of one task
CountAndEmit ==
    /\ spc = "counting"
    /\ processed_count < totalPages
    /\ processed_count' = processed_count + 1
    /\ events' = Append(events, SplitProgress(NewCount(processed_count), totalPages))
    /\ UNCHANGED <<splitArgs, temp_path_str, spc, task, count, files, rendered,
                   handleVars, results, splitResult, otherThanSplit>>

NextProgress == CountAndEmit

SpecProgress == InitProgress /\ [][NextProgress]_vars

(***************************************************************************)
(* extract_pdf_page: one page of a document, addressed by a 1-based u32    *)
(* page number, rendered to output_path.  A u32 is held as two 16-bit      *)
(* halves, so `as u16` is its low half.                                    *)
(***************************************************************************)

\* the page numbers tried: around 0, around the document's pages, and the
\* same low halves with other high halves
PageNumbers ==
    {U32(h, l) : h \in {0, 1, 65535}, l \in (0..(MaxPages + 1)) \cup {65535}}

OutputPaths ==
    {"/tmp/out/page", "/tmp/out/page.png", "/tmp/out/scan.PNG", "/tmp/out/a.png.bak"}

\* the resolutions tried: those of the tests, the largest one whose height
\* fits an i32 and the next, 2^28, 2^31 and u32::MAX
Dpis ==
    {U32(0, 72), U32(0, 150), U32(0, 300), U32(2730, 43690), U32(2730, 43691),
     U32(4096, 0), U32(32768, 0), U32(65535, 65535)}

PAGE_WIDTH_INCHES == 8
PAGE_HEIGHT_INCHES == 12

I32_MAX == 2147483647

\* `as i32` of a u32: the same 32 bits read as two's complement
AsI32(n) ==
    IF n.hi < 32768 THEN n.hi * 65536 + n.lo ELSE (n.hi - 65536) * 65536 + n.lo

\* v * k does not fit an i32, for an i32 v and a constant k >= 1
MulOverflows(v, k) ==
    LET below == (I32_MAX \div k) + (IF I32_MAX % k = k - 1 THEN 1 ELSE 0)
    IN  IF v >= 0 THEN v > I32_MAX \div k ELSE v < 0 - below

\* (n as i32) * k where the build wraps on overflow: the low 32 bits
WrappingMul(n, k) ==
    LET low == n.lo * k
    IN  AsI32(U32((n.hi * k + low \div 65536) % 65536, low % 65536))

\* the width and height of PdfRenderConfig
RenderConfig(d) ==
    [width |-> WrappingMul(d, PAGE_WIDTH_INCHES),
     height |-> WrappingMul(d, PAGE_HEIGHT_INCHES)]

\* one of the two multiplications overflows
RenderConfigOverflows(d) ==
    \/ MulOverflows(AsI32(d), PAGE_WIDTH_INCHES)
    \/ MulOverflows(AsI32(d), PAGE_HEIGHT_INCHES)

\* `page_number - 1` where the build wraps on overflow (wrapping_sub)
MinusOne(n) ==
    IF n.lo >= 1 THEN U32(n.hi, n.lo - 1)
    ELSE IF n.hi >= 1 THEN U32(n.hi - 1, 65535)
    ELSE U32(65535, 65535)

\* `page_number - 1` overflows
MinusOneOverflows(n) == n = U32(0, 0)

\* `as u16`: the low 16 bits
AsU16(n) == n.lo

\* str::ends_with
EndsWith(s, suffix) ==
    Len(s) >= Len(suffix) /\ SubSeq(s, Len(s) - Len(suffix) + 1, Len(s)) = suffix

\* final_path that appends ".png" to every path
FinalPathAlwaysAppends(path) == path \o ".png"

\* final_path: output_path, with ".png" appended unless it ends with it
FinalPath(path) == IF EndsWith(path, ".png") THEN path ELSE path \o ".png"

\* u32 in decimal, for page numbers whose high half is 0; the others are
\* written by their halves
U32Display(n) == IF n.hi = 0 THEN Dec(n.lo) ELSE Dec(n.hi) \o "*65536+" \o Dec(n.lo)

\* format!("Failed to get page {}: {}", page_number, e)
ExtractGetPageError(n) ==
    "Failed to get page " \o U32Display(n) \o ": page index out of bounds"

\* format!("Failed to render page {}: {}", page_number, e)
ExtractRenderError(n) == "Failed to render page " \o U32Display(n) \o ": render failed"
EXTRACT_SAVE_ERROR == "Failed to save page as PNG: write failed"

extractArgs == <<page_number, output_path, overflow_checks, dpi>>
otherThanExtract == <<retryVars, classifyVars, remoteVars, helperVars>>
splitRun ==
    <<totalPages, temp_path_str, spc, task, count, processed_count, events, files,
      rendered, held, bindings, documents, results, splitResult>>

InitExtract ==
    /\ libFound \in BOOLEAN
    /\ docValid \in BOOLEAN
    /\ docPages \in 1..MaxPages
    /\ page_number \in PageNumbers
    /\ output_path \in OutputPaths
    /\ overflow_checks \in BOOLEAN
    /\ dpi \in Dpis
    /\ epc = "start"
    /\ page_index = -1
    /\ render_config = NoConfig
    /\ extractResult = NoResult
    /\ totalPages = 0
    /\ temp_path_str = ""
    /\ spc = "idle"
    /\ task = <<>>
    /\ count = <<>>
    /\ processed_count = 0
    /\ events = <<>>
    /\ files = {}
    /\ rendered = <<>>
    /\ held = <<>>
    /\ bindings = 0
    /\ documents = 0
    /\ results = <<>>
    /\ splitResult = NoSplitResult
    /\ InitRetryIdle
    /\ InitClassifyIdle
    /\ InitRemoteIdle
    /\ InitHelpersIdle

\* create_pdfium and load_pdf_from_file
ExtractLoad ==
    /\ epc = "start"
    /\ \/ /\ ~libFound
          /\ epc' = "done"
          /\ extractResult' = Err(LIBRARY_ERROR)
       \/ /\ libFound
          /\ epc' = "done"
          /\ extractResult' = Err(BIND_ERROR)
       \/ /\ libFound
          /\ ~docValid
          /\ epc' = "done"
          /\ extractResult' = Err(LOAD_ERROR)
       \/ /\ libFound
          /\ docValid
          /\ epc' = "loaded"
          /\ UNCHANGED extractResult
    /\ UNCHANGED <<extractArgs, page_index, render_config, libFound, docValid,
                   docPages, splitRun, otherThanExtract>>

\* document.pages().get((page_number - 1) as u16)
ExtractGetPage ==
    /\ epc = "loaded"
    /\ IF MinusOneOverflows(page_number) /\ overflow_checks
       THEN /\ epc' = "panicked"
            /\ UNCHANGED <<page_index, extractResult>>
       ELSE /\ page_index' = AsU16(MinusOne(page_number))
            /\ IF page_index' < docPages
               THEN /\ epc' = "got"
                    /\ UNCHANGED extractResult
               ELSE /\ epc' = "done"
                    /\ extractResult' = Err(ExtractGetPageError(page_number))
    /\ UNCHANGED <<extractArgs, render_config, libFound, docValid, docPages,
                   splitRun, otherThanExtract>>

\* render_config, render_with_config, final_path, save_with_format,
\* Ok(final_path)
ExtractRenderAndSave ==
    /\ epc = "got"
    /\ IF RenderConfigOverflows(dpi) /\ overflow_checks
       THEN /\ epc' = "panicked"
            /\ UNCHANGED <<render_config, extractResult, files>>
       ELSE /\ epc' = "done"
            /\ render_config' = RenderConfig(dpi)
            /\ \/ /\ extractResult' = Err(ExtractRenderError(page_number))
                  /\ UNCHANGED files
               \/ extractResult' = Err(EXTRACT_SAVE_ERROR) /\ UNCHANGED files
               \/ /\ extractResult' = Ok(FinalPath(output_path))
                  /\ files' = {[path |-> FinalPath(output_path), page |-> page_index]}
    /\ UNCHANGED <<extractArgs, page_index, libFound, docValid, docPages, totalPages,
                   temp_path_str, spc, task, count, processed_count, events,
                   rendered, held, bindings, documents, results, splitResult,
                   otherThanExtract>>

NextExtract ==
    \/ ExtractLoad
    \/ ExtractGetPage
    \/ ExtractRenderAndSave

SpecExtract == InitExtract /\ [][NextExtract]_vars


(***************************************************************************)
(* The content type upload_to_google_drive derives from the local path     *)
(***************************************************************************)

None == [some |-> FALSE, val |-> ""]
Some(v) == [some |-> TRUE, val |-> v]

\* the position of the last occurrence of the character c in s, 0 if none
LastIndexOf(s, c) ==
    LET at == {i \in 1..Len(s) : SubSeq(s, i, i) = c}
    IN  IF at = {} THEN 0 ELSE CHOOSE i \in at : \A j \in at : j <= i

\* the path without the trailing separators and "." components that
\* Path::components skips
RECURSIVE TrimTrailing(_)
TrimTrailing(path) ==
    IF Len(path) >= 2 /\ SubSeq(path, Len(path), Len(path)) = "/"
    THEN TrimTrailing(SubSeq(path, 1, Len(path) - 1))
    ELSE IF Len(path) >= 2 /\ SubSeq(path, Len(path) - 1, Len(path)) = "/."
    THEN TrimTrailing(SubSeq(path, 1, Len(path) - 1))
    ELSE path

\* Path::file_name: the last component, unless it is the root, "." or ".."
FileName(path) ==
    LET trimmed == TrimTrailing(path)
        name == SubSeq(trimmed, LastIndexOf(trimmed, "/") + 1, Len(trimmed))
    IN  IF name \in {"", ".", ".."} THEN None ELSE Some(name)

\* Path::extension: what follows the last "." of the file name, unless the
\* name has no "." or only the one it begins with
Extension(path) ==
    LET file == FileName(path)
        dot == LastIndexOf(file.val, ".")
    IN  IF ~file.some \/ dot <= 1 THEN None
        ELSE Some(SubSeq(file.val, dot + 1, Len(file.val)))

\* the match on the extension
MimeOfExtension(ext) ==
    CASE ext = "png" -> "image/png"
      [] ext \in {"jpg", "jpeg"} -> "image/jpeg"
      [] ext = "pdf" -> "application/pdf"
      [] OTHER -> "application/octet-stream"

\* the content type chosen without lower-casing the extension
MimeTypeCaseSensitive(path) ==
    LET ext == Extension(path)
    IN  MimeOfExtension(IF ext.some THEN ext.val ELSE "")

\* mime_type
MimeType(path) ==
    LET ext == Extension(path)
    IN  MimeOfExtension(ToLower(IF ext.some THEN ext.val ELSE ""))

\* the local paths tried: a directory, a file stem and a last extension
MimeDirs == {"", "/test/", "/scans.png/"}
MimeStems == {"", "IMAGE", "file.tar", "x.png"}
MimeSuffixes ==
    {"", ".", ".png", ".PNG", ".Png", ".jpg", ".JPG", ".jpeg", ".JPEG", ".pdf",
     ".Pdf", ".gz", ".hidden", ".pngx", ".pn"}
MimePaths ==
    {d \o s \o x : d \in MimeDirs, s \in MimeStems, x \in MimeSuffixes}
        \ (MimeDirs \cup {d \o "." : d \in MimeDirs})

InitMime ==
    /\ file_path \in MimePaths
    /\ mime_type = ""
    /\ InitLibraryIdle
    /\ InitCleanupIdle
    /\ InitAuthIdle
    /\ InitRetryIdle
    /\ InitClassifyIdle
    /\ InitRemoteIdle
    /\ InitSplitIdle
    /\ InitExtractIdle

\* let mime_type = match path.extension() ...
DetectMime ==
    /\ mime_type = ""
    /\ mime_type' = MimeType(file_path)
    /\ UNCHANGED <<file_path, libraryVars, cleanupVars, authVars, retryVars, classifyVars,
                   remoteVars, splitVars, extractVars>>

NextMime == DetectMime

SpecMime == InitMime /\ [][NextMime]_vars

(***************************************************************************)
(* cleanup_temp_dir on a file system of a few entries under /tmp           *)
(***************************************************************************)

MaxCleanupCalls == 2

TEMP_DIR == "/tmp/.tmpQ7xK2a"
SIBLING_DIR == "/tmp/.tmpQ7xK2a-old"

Dir(p) == [path |-> p, is_dir |-> TRUE]
File(p) == [path |-> p, is_dir |-> FALSE]

\* the entries a file system may hold: the temp directory with a page, nested
\* directories and a file in them, and a directory whose name begins alike
AllEntries ==
    {Dir(TEMP_DIR),
     File(JoinPath(TEMP_DIR, "page-0001.png")),
     Dir(JoinPath(TEMP_DIR, "subdir")),
     Dir(JoinPath(TEMP_DIR, "subdir/subsubdir")),
     File(JoinPath(TEMP_DIR, "subdir/subsubdir/file.txt")),
     Dir(SIBLING_DIR),
     File(JoinPath(SIBLING_DIR, "page-0001.png"))}

\* Path::parent
Parent(p) == SubSeq(p, 1, LastIndexOf(p, "/") - 1)

\* every entry lies in /tmp or in a directory of the file system
ParentClosed(t) ==
    \A n \in t : Parent(n.path) = "/tmp" \/ Dir(Parent(n.path)) \in t

FileSystems == {t \in SUBSET AllEntries : ParentClosed(t)}

CleanupPaths ==
    {TEMP_DIR, JoinPath(TEMP_DIR, "subdir"), JoinPath(TEMP_DIR, "page-0001.png"),
     "/nonexistent/path/that/does/not/exist"}

\* Path::exists and Path::is_dir
Exists(t, p) == \E n \in t : n.path = p
IsDir(t, p) == Dir(p) \in t

\* p is root or lies below it
Under(p, root) ==
    \/ p = root
    \/ Len(p) > Len(root) /\ SubSeq(p, 1, Len(root) + 1) = root \o "/"

\* a removal that takes the directory entry and leaves what is below it
RemoveDirOnly(t, root) == {n \in t : n.path # root}

\* fs::remove_dir_all that returns Ok
RemoveDirAll(t, root) == {n \in t : ~Under(n.path, root)}

\* fs::remove_dir_all that returns Err: some of what is below root may be
\* gone, root itself is not
PartialRemovals(t, root) ==
    {t \ gone : gone \in {g \in SUBSET {n \in t : Under(n.path, root) /\ n.path # root} :
                              ParentClosed(t \ g)}}

REMOVE_ERROR == "Failed to remove temp directory: Permission denied (os error 13)"
UNIT == "()"

\* the file system now
CurrentFs == fs_history[Len(fs_history)]

InitCleanup ==
    /\ cleanup_path \in CleanupPaths
    /\ fs_history \in {<<t>> : t \in FileSystems}
    /\ cleanup_results = <<>>
    /\ InitMimeIdle
    /\ InitLibraryIdle
    /\ InitAuthIdle
    /\ InitRetryIdle
    /\ InitClassifyIdle
    /\ InitRemoteIdle
    /\ InitSplitIdle
    /\ InitExtractIdle

\* cleanup_temp_dir(path)
CleanupTempDir ==
    /\ fs_history # <<>>
    /\ Len(cleanup_results) < MaxCleanupCalls
    /\ IF Exists(CurrentFs, cleanup_path) /\ IsDir(CurrentFs, cleanup_path)
       THEN \/ /\ fs_history' = Append(fs_history, RemoveDirAll(CurrentFs, cleanup_path))
               /\ cleanup_results' = Append(cleanup_results, Ok(UNIT))
            \/ \E left \in PartialRemovals(CurrentFs, cleanup_path) :
                   /\ fs_history' = Append(fs_history, left)
                   /\ cleanup_results' = Append(cleanup_results, Err(REMOVE_ERROR))
       ELSE /\ fs_history' = Append(fs_history, CurrentFs)
            /\ cleanup_results' = Append(cleanup_results, Ok(UNIT))
    /\ UNCHANGED <<cleanup_path, mimeVars, libraryVars, authVars, retryVars, classifyVars,
                   remoteVars, splitVars, extractVars>>

NextCleanup == CleanupTempDir

SpecCleanup == InitCleanup /\ [][NextCleanup]_vars

(***************************************************************************)
(* auth.rs: the token file and the commands that read and write it.  A u64 *)
(* is held as four 16-bit limbs, the most significant first.               *)
(***************************************************************************)

U64(a, b, c, d) == <<a, b, c, d>>
U64_ZERO == U64(0, 0, 0, 0)
U64_MAX == U64(65535, 65535, 65535, 65535)

\* the u64 of a number below 2^31
U64Of(n) == U64(0, 0, n \div 65536, n % 65536)

\* a < b
U64Less(a, b) ==
    \E i \in 1..4 : a[i] < b[i] /\ \A j \in 1..(i - 1) : a[j] = b[j]

\* a + b: the low 64 bits and whether the sum overflows
U64Add(a, b) ==
    LET s4 == a[4] + b[4]
        s3 == a[3] + b[3] + s4 \div 65536
        s2 == a[2] + b[2] + s3 \div 65536
        s1 == a[1] + b[1] + s2 \div 65536
    IN  [sum |-> U64(s1 % 65536, s2 % 65536, s3 % 65536, s4 % 65536),
         overflow |-> s1 >= 65536]

\* a - b: the low 64 bits and whether the difference is negative
U64Sub(a, b) ==
    LET d4 == a[4] - b[4]
        d3 == a[3] - b[3] - (IF d4 < 0 THEN 1 ELSE 0)
        d2 == a[2] - b[2] - (IF d3 < 0 THEN 1 ELSE 0)
        d1 == a[1] - b[1] - (IF d2 < 0 THEN 1 ELSE 0)
    IN  [diff |-> U64((d1 + 65536) % 65536, (d2 + 65536) % 65536,
                      (d3 + 65536) % 65536, (d4 + 65536) % 65536),
         overflow |-> d1 < 0]

\* how far the clock is moved, at most
MaxHours == 1

\* SystemTime::now().duration_since(UNIX_EPOCH).unwrap().as_secs()
NOW_AT_INIT == U64(0, 0, 27312, 100)
NowAt(hours) == U64Add(NOW_AT_INIT, U64Of(hours * 3600)).sum

AuthTokens(a, r, x) == [access_token |-> a, refresh_token |-> r, expires_in |-> x]

\* the token file with the JSON of a StoredTokens
StoredTokens(a, r, x) ==
    [kind |-> "tokens", access_token |-> a, refresh_token |-> r, expires_at |-> x]

\* a token file that is not the JSON of a StoredTokens
MALFORMED == [NO_FILE EXCEPT !.kind = "malformed"]

\* Option<AuthTokens>
NoTokens == [some |-> FALSE, tokens |-> AuthTokens("", "", U64_ZERO)]
SomeTokens(t) == [some |-> TRUE, tokens |-> t]

\* the body of a token endpoint answer read as TokenResponse
TokenResponse(a, r, x) ==
    [valid |-> TRUE, access_token |-> a, refresh_token |-> r, expires_in |-> x]

TokenAnswer(st, text, json) == [status |-> st, text |-> text, json |-> json]

IssuedRefreshTokens == {None, Some("1//new-refresh"), Some("")}

\* what the token endpoint may answer: tokens that last an hour, tokens with
\* the longest lifetime a u64 holds, and the failures
TokenAnswers ==
    {TokenAnswer(200, "", TokenResponse("ya29.new-access", r, U64Of(3600))) :
         r \in IssuedRefreshTokens}
    \cup {TokenAnswer(200, "", TokenResponse("ya29.new-access", None, U64_MAX)),
          TokenAnswer(200, "<html>", NOT_JSON),
          TokenAnswer(400, "{\"error\": \"invalid_grant\"}", NOT_JSON),
          TokenAnswer(0, SEND_ERROR, NOT_JSON)}

\* exchange_code_for_tokens, on the answer to its request
ExchangeOutcome(resp) ==
    IF resp.status = 0 THEN Err(resp.text)
    ELSE IF ~IsSuccess(resp.status) THEN Err("Token exchange failed: " \o resp.text)
    ELSE IF ~resp.json.valid THEN Err(DECODE_ERROR)
    ELSE Ok(AuthTokens(resp.json.access_token,
                       IF resp.json.refresh_token.some
                       THEN resp.json.refresh_token.val ELSE "",
                       resp.json.expires_in))

\* a refresh that takes the refresh token of the answer, or none
RefreshOutcomeDropsToken(resp, refresh_token) == ExchangeOutcome(resp)

\* refresh_access_token up to store_tokens, on the answer to its request
RefreshOutcome(resp, refresh_token) ==
    IF resp.status = 0 THEN Err(resp.text)
    ELSE IF ~IsSuccess(resp.status) THEN Err("Token refresh failed: " \o resp.text)
    ELSE IF ~resp.json.valid THEN Err(DECODE_ERROR)
    ELSE Ok(AuthTokens(resp.json.access_token,
                       IF resp.json.refresh_token.some
                       THEN resp.json.refresh_token.val ELSE refresh_token,
                       resp.json.expires_in))

PANIC == [ok |-> FALSE, val |-> "<panicked: attempt to add with overflow>"]
WRITE_ERROR == "No space left on device (os error 28)"
FILE_READ_ERROR == "Permission denied (os error 13)"
PARSE_ERROR == "expected value at line 1 column 1"
Stored(file, res) == [file |-> file, result |-> res]

\* store_tokens: the file afterwards and the result.  fs::write truncates the
\* file before it writes, so a write that fails may leave what it found or a
\* file that is not StoredTokens
StoreTokens(tokens, file, now, checks) ==
    LET at == U64Add(now, tokens.expires_in)
    IN  IF at.overflow /\ checks THEN {Stored(file, PANIC)}
        ELSE {Stored(StoredTokens(tokens.access_token, tokens.refresh_token, at.sum),
                     Ok(UNIT)),
              Stored(file, Err(WRITE_ERROR)),
              Stored(MALFORMED, Err(WRITE_ERROR))}

\* expires_in computed with no comparison before the subtraction
RemainingWrapping(expires_at, now) == U64Sub(expires_at, now).diff

\* if stored.expires_at > now { stored.expires_at - now } else { 0 }
Remaining(expires_at, now) ==
    IF U64Less(now, expires_at) THEN U64Sub(expires_at, now).diff ELSE U64_ZERO

\* load_stored_tokens on a token file
LoadOutcomes(file, now) ==
    IF file.kind = "none" THEN {Ok(NoTokens)}
    ELSE IF file.kind = "malformed" THEN {Err(FILE_READ_ERROR), Err(PARSE_ERROR)}
    ELSE {Err(FILE_READ_ERROR),
          Ok(SomeTokens(AuthTokens(file.access_token, file.refresh_token,
                                   Remaining(file.expires_at, now))))}

\* the expiry times of the token files tried: the epoch, that of the tests,
\* around now, half an hour from now, and u64::MAX
StoredExpiries ==
    {U64_ZERO, U64Of(1000), U64Sub(NOW_AT_INIT, U64Of(1)).diff, NOW_AT_INIT,
     U64Add(NOW_AT_INIT, U64Of(1)).sum, U64Add(NOW_AT_INIT, U64Of(1800)).sum, U64_MAX}

HeldRefreshTokens == {"1//old-refresh", ""}

TokenFiles ==
    {NO_FILE, MALFORMED}
    \cup {StoredTokens("ya29.old-access", r, x) : r \in HeldRefreshTokens,
                                                   x \in StoredExpiries}

\* the `?` after the request: a failure returns before store_tokens runs
StoreIfOkClearing(outcome, file, now, checks) ==
    IF ~outcome.ok THEN {Stored(NO_FILE, outcome)}
    ELSE {Stored(s.file, IF s.result.ok THEN outcome ELSE s.result) :
              s \in StoreTokens(outcome.val, file, now, checks)}

\* let tokens = ...?; store_tokens(&tokens)?; Ok(tokens)
StoreIfOk(outcome, file, now, checks) ==
    IF ~outcome.ok THEN {Stored(file, outcome)}
    ELSE {Stored(s.file, IF s.result.ok THEN outcome ELSE s.result) :
              s \in StoreTokens(outcome.val, file, now, checks)}

(***************************************************************************)
(* extract_code                                                            *)
(***************************************************************************)

\* str::starts_with
StartsWith(s, prefix) ==
    Len(s) >= Len(prefix) /\ SubSeq(s, 1, Len(prefix)) = prefix

\* the position of the first occurrence of the character c in s, 0 if none
Find(s, c) ==
    LET at == {i \in 1..Len(s) : SubSeq(s, i, i) = c}
    IN  IF at = {} THEN 0 ELSE CHOOSE i \in at : \A j \in at : i <= j

IsWhitespace(c) == c \in {" ", "\t", "\r", "\n"}

\* split_whitespace().next()
FirstToken(s) ==
    LET at == {i \in 1..Len(s) : ~IsWhitespace(SubSeq(s, i, i))}
    IN  IF at = {} THEN None
        ELSE LET first == CHOOSE i \in at : \A j \in at : i <= j
                 ends == {i \in first..Len(s) : IsWhitespace(SubSeq(s, i, i))}
                 last == IF ends = {} THEN Len(s)
                         ELSE (CHOOSE i \in ends : \A j \in ends : i <= j) - 1
             IN  Some(SubSeq(s, first, last))

\* Url::query of "http://localhost{path}": what follows the first "?" and
\* precedes the "#".  The request lines tried have targets Url::parse accepts
UrlQuery(path) ==
    LET hash == Find(path, "#")
        url == IF hash = 0 THEN path ELSE SubSeq(path, 1, hash - 1)
        mark == Find(url, "?")
    IN  IF mark = 0 THEN None ELSE Some(SubSeq(url, mark + 1, Len(url)))

Escapes == <<"%2F", "%2f", "%3D", "%26", "%20">>
Escaped == <<"/", "/", "=", "&", " ">>

\* form_urlencoded decoding: "+" is a space, "%XX" the byte XX (for the XX of
\* Escapes; the request lines tried have no other)
RECURSIVE Decode(_)
Decode(s) ==
    IF Len(s) = 0 THEN ""
    ELSE IF \E i \in 1..Len(Escapes) : StartsWith(s, Escapes[i])
    THEN LET i == CHOOSE i \in 1..Len(Escapes) : StartsWith(s, Escapes[i])
         IN  Escaped[i] \o Decode(SubSeq(s, 4, Len(s)))
    ELSE (IF SubSeq(s, 1, 1) = "+" THEN " " ELSE SubSeq(s, 1, 1))
         \o Decode(SubSeq(s, 2, Len(s)))

\* one "name=value" piece of a query as a pair
QueryPair(piece) ==
    LET eq == Find(piece, "=")
    IN  IF eq = 0 THEN [key |-> Decode(piece), value |-> ""]
        ELSE [key |-> Decode(SubSeq(piece, 1, eq - 1)),
              value |-> Decode(SubSeq(piece, eq + 1, Len(piece)))]

\* Url::query_pairs: the pieces between "&", the empty ones skipped
RECURSIVE QueryPairs(_)
QueryPairs(query) ==
    LET amp == Find(query, "&")
        piece == IF amp = 0 THEN query ELSE SubSeq(query, 1, amp - 1)
        rest == IF amp = 0 THEN <<>> ELSE QueryPairs(SubSeq(query, amp + 1, Len(query)))
    IN  IF Len(piece) = 0 THEN rest ELSE <<QueryPair(piece)>> \o rest

\* extract_code
ExtractCode(request_line) ==
    IF ~StartsWith(request_line, "GET ") THEN None
    ELSE LET path == FirstToken(SubSeq(request_line, 5, Len(request_line)))
             query == IF path.some THEN UrlQuery(path.val) ELSE None
             pairs == IF query.some THEN QueryPairs(query.val) ELSE <<>>
             hits == {i \in 1..Len(pairs) : pairs[i].key = "code"}
         IN  IF ~path.some \/ ~Contains(path.val, "code=") \/ hits = {} THEN None
             ELSE Some(pairs[CHOOSE i \in hits : \A j \in hits : i <= j].value)

\* the request lines a connection may send
RequestLines ==
    {"GET /?code=4/0AbCdEf&scope=drive HTTP/1.1\r\n",
     "GET /?code=4%2F0AcvDMr HTTP/1.1",
     "GET /?state=xyz&xcode=1&code=abc123 HTTP/1.1\r\n",
     "GET /?code= HTTP/1.1\r\n",
     "GET /favicon.ico HTTP/1.1\r\n",
     "GET /?error=access_denied HTTP/1.1\r\n",
     "POST /?code=abc123 HTTP/1.1\r\n",
     ""}

(***************************************************************************)
(* The commands of auth.rs.  The steps of start_oauth_flow before the code *)
(* exchange touch only the listener and the browser and the other commands *)
(* only the token file, so the commands are taken between flows.  The      *)
(* listener, the browser, answers and exchanges belong to the flow called  *)
(* last; another command called after it starts without them.              *)
(***************************************************************************)

\* how many connections one flow accepts, at most
MaxRequests == 2

RefreshArguments == {"1//old-refresh", "1//new-refresh", ""}

PORT_BIND_ERROR == "Failed to bind to port 3027: Address already in use (os error 98)"
BROWSER_ERROR == "Failed to open browser: Launcher failed"
ACCEPT_ERROR == "Failed to accept connection: Too many open files (os error 24)"
REQUEST_READ_ERROR == "Failed to read request: stream did not contain valid UTF-8"
REMOVE_FILE_ERROR == "Permission denied (os error 13)"

NoStreak == [active |-> FALSE, chained |-> FALSE, latest |-> ""]
FlowIdle == flow_pc \in {"idle", "done"}
NoFlow ==
    /\ flow_pc' = "idle"
    /\ port_bound' = FALSE
    /\ browser_opened' = FALSE
    /\ answers' = <<>>
    /\ exchanges' = <<>>

InitAuth ==
    /\ token_file \in TokenFiles
    /\ overflow_checks \in BOOLEAN
    /\ clock = 0
    /\ auth_op = "none"
    /\ auth_arg = ""
    /\ token_resp = NoTokenAnswer
    /\ auth_result = NoResult
    /\ streak = NoStreak
    /\ flow_pc = "idle"
    /\ port_bound = FALSE
    /\ browser_opened = FALSE
    /\ answers = <<>>
    /\ exchanges = <<>>
    /\ page_number = [hi |-> 0, lo |-> 0]
    /\ output_path = ""
    /\ epc = "idle"
    /\ page_index = -1
    /\ dpi = [hi |-> 0, lo |-> 0]
    /\ render_config = NoConfig
    /\ extractResult = NoResult
    /\ InitMimeIdle
    /\ InitLibraryIdle
    /\ InitCleanupIdle
    /\ InitRetryIdle
    /\ InitClassifyIdle
    /\ InitRemoteIdle
    /\ InitSplitIdle

otherVars ==
    <<mimeVars, libraryVars, cleanupVars, retryVars, classifyVars, remoteVars, splitVars,
      extractVars>>

\* the clock moves on
Tick ==
    /\ clock < MaxHours
    /\ clock' = clock + 1
    /\ UNCHANGED <<token_file, auth_op, auth_arg, token_resp, auth_result, streak,
                   flowVars, otherVars>>

\* load_stored_tokens()
LoadStoredTokens ==
    /\ FlowIdle
    /\ auth_op' = "load"
    /\ auth_arg' = ""
    /\ token_resp' = NoTokenAnswer
    /\ auth_result' \in LoadOutcomes(token_file, NowAt(clock))
    /\ NoFlow
    /\ UNCHANGED <<token_file, clock, streak, otherVars>>

\* clear_auth_tokens()
ClearAuthTokens ==
    /\ FlowIdle
    /\ auth_op' = "clear"
    /\ auth_arg' = ""
    /\ token_resp' = NoTokenAnswer
    /\ streak' = NoStreak
    /\ \/ /\ token_file' = NO_FILE
          /\ auth_result' = Ok(UNIT)
       \/ /\ token_file.kind # "none"
          /\ token_file' = token_file
          /\ auth_result' = Err(REMOVE_FILE_ERROR)
    /\ NoFlow
    /\ UNCHANGED <<clock, otherVars>>

\* the refresh token a run of successful refreshes has been issued last, and
\* whether the run has more than one refresh: the run goes on when the caller
\* passes the token the refresh before returned
StreakAfter(refresh_token, resp, returned) ==
    IF ~returned.ok \/ (~streak.active /\ refresh_token = "")
       \/ (streak.active /\ refresh_token # streak.latest)
    THEN NoStreak
    ELSE [active |-> TRUE,
          chained |-> streak.active,
          latest |-> IF resp.json.refresh_token.some
                     THEN resp.json.refresh_token.val
                     ELSE IF streak.active THEN streak.latest ELSE refresh_token]

\* refresh_access_token(refresh_token)
RefreshAccessToken ==
    /\ FlowIdle
    /\ \E refresh_token \in RefreshArguments, resp \in TokenAnswers :
         \E s \in StoreIfOk(RefreshOutcome(resp, refresh_token), token_file,
                            NowAt(clock), overflow_checks) :
            /\ auth_op' = "refresh"
            /\ auth_arg' = refresh_token
            /\ token_resp' = resp
            /\ token_file' = s.file
            /\ auth_result' = s.result
            /\ streak' = StreakAfter(refresh_token, resp, s.result)
    /\ NoFlow
    /\ UNCHANGED <<clock, otherVars>>

Answered(line, st, code) == [line |-> line, status |-> st, code |-> code]

\* the answer to every GET request is 200
AnswerRequestEveryGet(request_line) ==
    IF StartsWith(request_line, "GET ")
    THEN Answered(request_line, 200, Some(""))
    ELSE Answered(request_line, 404, None)

\* the body of the accept loop: the status written and the code, if any
AnswerRequest(request_line) ==
    LET code == ExtractCode(request_line)
    IN  IF code.some THEN Answered(request_line, 200, code)
        ELSE Answered(request_line, 404, None)

\* start_oauth_flow up to TcpListener::bind
StartOAuthFlow ==
    /\ FlowIdle
    /\ auth_op' = "flow"
    /\ auth_arg' = ""
    /\ token_resp' = NoTokenAnswer
    /\ streak' = NoStreak
    /\ browser_opened' = FALSE
    /\ answers' = <<>>
    /\ exchanges' = <<>>
    /\ \/ /\ port_bound' = TRUE
          /\ flow_pc' = "bound"
          /\ auth_result' = NoResult
       \/ /\ port_bound' = FALSE
          /\ flow_pc' = "done"
          /\ auth_result' = Err(PORT_BIND_ERROR)
    /\ UNCHANGED <<token_file, clock, otherVars>>

\* open::that(&auth_url)
OpenBrowser ==
    /\ flow_pc = "bound"
    /\ \/ /\ browser_opened' = TRUE
          /\ flow_pc' = "listening"
          /\ UNCHANGED <<port_bound, auth_result>>
       \/ /\ browser_opened' = FALSE
          /\ flow_pc' = "done"
          /\ port_bound' = FALSE
          /\ auth_result' = Err(BROWSER_ERROR)
    /\ UNCHANGED <<token_file, clock, auth_op, auth_arg, token_resp, streak, answers,
                   exchanges, otherVars>>

\* one turn of the accept loop
AcceptConnection ==
    /\ flow_pc = "listening"
    /\ Len(answers) < MaxRequests
    /\ \/ \E request_line \in RequestLines :
            LET a == AnswerRequest(request_line)
            IN  /\ answers' = Append(answers, a)
                /\ flow_pc' = IF a.code.some THEN "exchange" ELSE "listening"
                /\ UNCHANGED <<port_bound, auth_result>>
       \/ /\ auth_result' \in {Err(ACCEPT_ERROR), Err(REQUEST_READ_ERROR)}
          /\ flow_pc' = "done"
          /\ port_bound' = FALSE
          /\ UNCHANGED answers
    /\ UNCHANGED <<token_file, clock, auth_op, auth_arg, token_resp, streak,
                   browser_opened, exchanges, otherVars>>

\* exchange_code_for_tokens(&code), store_tokens(&tokens) and the return
ExchangeCodeForTokens ==
    /\ flow_pc = "exchange"
    /\ \E resp \in TokenAnswers :
         \E s \in StoreIfOk(ExchangeOutcome(resp), token_file, NowAt(clock),
                            overflow_checks) :
            /\ token_resp' = resp
            /\ token_file' = s.file
            /\ auth_result' = s.result
    /\ exchanges' = Append(exchanges, answers[Len(answers)].code.val)
    /\ flow_pc' = "done"
    /\ port_bound' = FALSE
    /\ UNCHANGED <<clock, auth_op, auth_arg, streak, browser_opened, answers, otherVars>>

NextAuth ==
    \/ Tick
    \/ LoadStoredTokens
    \/ ClearAuthTokens
    \/ RefreshAccessToken
    \/ StartOAuthFlow
    \/ OpenBrowser
    \/ AcceptConnection
    \/ ExchangeCodeForTokens

SpecAuth == InitAuth /\ [][NextAuth]_vars
(***************************************************************************)
(* C1. An operation that fails with a transient-marked error k times       *)
(* (0 <= k <= max_retries) and then succeeds: the wrapped call returns     *)
(* that success value and the operation is invoked exactly k+1 times (it   *)
(* is never invoked more often, and the call returns only then).           *)
(***************************************************************************)
FailsThenSucceeds(k) ==
    /\ \A j \in 1..k : script[j] \in TransientErrors
    /\ script[k + 1].ok

C1_SuccessAfterKTransientFailures ==
    \A k \in 0..max_retries :
        FailsThenSucceeds(k) =>
            /\ calls <= k + 1
            /\ rpc = "done" => (result = script[k + 1] /\ calls = k + 1)

C1_Witness ==
    /\ FailsThenSucceeds(max_retries)
    /\ rpc = "done"
    /\ result = OK_SUCCESS
    /\ calls = max_retries + 1

(***************************************************************************)
(* C2. An operation that always fails with a transient error is invoked    *)
(* exactly 6 times and the wrapped call returns the error of the 6th       *)
(* invocation.                                                             *)
(***************************************************************************)
AlwaysTransient == \A j \in 1..ScriptLen : script[j] \in TransientErrors

C2_GivesUpAfterSixInvocations ==
    AlwaysTransient =>
        /\ calls <= 6
        /\ rpc = "done" => (calls = 6 /\ result = script[6])

C2_Witness ==
    /\ AlwaysTransient
    /\ rpc = "done"
    /\ calls = 6
    /\ script[6] = ERR_429
    /\ script[1] = ERR_500
    /\ result = ERR_429

(***************************************************************************)
(* C3. An operation whose error is not transient (400, 401, 403, 404 and   *)
(* no transient marker) is invoked exactly once; the wrapped call fails    *)
(* with that error and never sleeps.                                       *)
(***************************************************************************)
C3_PermanentErrorFailsImmediately ==
    script[1] \in PermanentErrors =>
        /\ calls <= 1
        /\ sleeps = 0
        /\ rpc # "sleep"
        /\ rpc = "done" => (calls = 1 /\ result = script[1])

C3_Witness ==
    /\ script[1] = ERR_403
    /\ script[2] = OK_SUCCESS
    /\ rpc = "done"
    /\ calls = 1
    /\ result = ERR_403

StatusMarkers == {"429", "500", "502", "503", "504"}

(***************************************************************************)
(* C5. An error description is transient exactly when it contains one of   *)
(* the markers 429, 500, 502, 503, 504 or the token "timeout" in any       *)
(* letter case; every other description is permanent.                      *)
(***************************************************************************)
C5_TransientIffMarkerOrTimeoutAnyCase ==
    verdict # "none" =>
        (verdict = "transient" <=>
            \/ \E m \in StatusMarkers : Contains(errText, m)
            \/ Contains(ToLower(errText), "timeout"))

TransientStatuses == {429, 500, 502, 503, 504}

\* the text put before " failed (" by the command that is running
CommandWord ==
    CASE op = "upload" -> "Upload"
      [] op = "export" -> "Export"
      [] OTHER -> "Delete"

\* the last request was answered with a non-success status that is none of
\* 429, 500, 502, 503, 504
FatalAnswer ==
    /\ op \in {"upload", "export", "delete"}
    /\ lastResp.status # 0
    /\ ~IsSuccess(lastResp.status)
    /\ lastResp.status \notin TransientStatuses

(***************************************************************************)
(* C4. For upload, export and delete, a non-success response whose status  *)
(* is none of 429, 500, 502, 503, 504 is surfaced at once, whatever its    *)
(* body and reason phrase: the call has returned the error made of that    *)
(* status and body, it does not sleep or send again, and when the response *)
(* is the first one the request was sent exactly once.                     *)
(***************************************************************************)
C4_FatalStatusSurfacedWithoutRetry ==
    FatalAnswer =>
        /\ rpc = "done"
        /\ result = Err(FailureText(CommandWord, lastResp))
        /\ retries = 0 => (calls = 1 /\ sleeps = 0)

\* the last upload request created its document and was answered as a
\* transient failure
CreatedButReportedTransient ==
    /\ op = "upload"
    /\ lastResp.acted
    /\ lastResp.status \in TransientStatuses

\* the identifier of the document the drive created last
LatestId == "f" \o Dec(Cardinality(remote))

(***************************************************************************)
(* C6. Upload is not at-most-once under retry.  An upload attempt that     *)
(* created its document but was answered with a transient failure does not *)
(* end the call while retries remain: the executor sends the same upload   *)
(* again.  A successful call returns the identifier of the document its    *)
(* last attempt created, whatever earlier attempts created, so one call    *)
(* can leave two or more documents on the drive (C6_Witness).              *)
(***************************************************************************)
C6_UploadRetriedAfterCreation ==
    op = "upload" =>
        /\ (CreatedButReportedTransient /\ rpc = "done") => retries = max_retries
        /\ (rpc = "done" /\ result.ok) =>
              /\ lastResp.acted
              /\ result.val = LatestId
              /\ result.val \in remote

C6_Witness ==
    /\ op = "upload"
    /\ rpc = "done"
    /\ result.ok
    /\ calls = 2
    /\ remote = {"f1", "f2"}
    /\ result.val = "f2"

\* split_pdf returned Ok
SplitSucceeded == spc = "done" /\ splitResult.ok

\* the progress event that reports all n of n pages
FinalEvent(n) == [current_page |-> n, total_pages |-> n, percentage |-> 100]

(***************************************************************************)
(* C7 as stated. In a split job whose n >= 1 pages all succeed, the last   *)
(* progress event in emission order has currentPage = n, totalPages = n    *)
(* and percentage = 100, under every interleaving of the workers.          *)
(***************************************************************************)
C7_LastEventReportsAllPages ==
    (SplitSucceeded /\ totalPages >= 1) =>
        events[Len(events)] = FinalEvent(totalPages)

(***************************************************************************)
(* C7 as amended. In a split job whose n >= 1 pages all succeed, exactly   *)
(* one of the emitted progress events has currentPage = n, totalPages = n  *)
(* and percentage = 100, and no event has a larger currentPage; it need    *)
(* not be the last event emitted.                                          *)
(***************************************************************************)
C7_AllPagesReportedExactlyOnce ==
    (SplitSucceeded /\ totalPages >= 1) =>
        /\ Cardinality({k \in 1..Len(events) : events[k] = FinalEvent(totalPages)}) = 1
        /\ \A k \in 1..Len(events) : events[k].current_page <= totalPages
        /\ processed_count = totalPages

C7_Witness ==
    /\ SplitSucceeded
    /\ totalPages = 3
    /\ Len(events) = 3
    /\ events[2] = FinalEvent(3)
    /\ events[3].current_page = 1

\* the path of the file of page number `page`, written out
PathOfPage(page) == temp_path_str \o "/page-" \o Pad4(page) \o ".png"

\* the path of the file of page number `page` in the temp directory dir
PathIn(dir, page) == JoinPath(dir, PageFileName(page))

\* the paths of the pages 1..9999 ascend in string order, in every directory
PathsAscendUpTo9999 ==
    \A d \in TempDirs :
        /\ \A p \in 1..9998 : StrLess(PathIn(d, p), PathIn(d, p + 1))
        /\ \A p, q \in {1, 2, 9, 10, 11, 99, 100, 101, 999, 1000, 1001, 9998, 9999} :
              p < q => (StrLess(PathIn(d, p), PathIn(d, q))
                        /\ ~StrLess(PathIn(d, q), PathIn(d, p)))

(***************************************************************************)
(* C8. For every page count n in [1, 9999] a successful split returns n    *)
(* paths, and the returned list, sorted by path string, is in ascending    *)
(* page order whatever the order in which the workers completed the pages: *)
(* the k-th path returned is the file of page k, and the paths of pages    *)
(* 1..9999 ascend in string order.                                         *)
(***************************************************************************)
C8_ReturnedPathsInPageOrder ==
    /\ SplitSucceeded =>
          /\ Len(splitResult.image_paths) = totalPages
          /\ \A k \in 1..totalPages : splitResult.image_paths[k] = PathOfPage(k)
    /\ PathsAscendUpTo9999

C8_Witness ==
    /\ SplitSucceeded
    /\ totalPages = 3
    /\ count[2] < count[1]
    /\ count[1] < count[0]
    /\ splitResult.image_paths =
          <<"/tmp/.tmpQ7xK2a/page-0001.png", "/tmp/.tmpQ7xK2a/page-0002.png",
            "/tmp/.tmpQ7xK2a/page-0003.png">>

\* the page indices whose file has been written
Written == {i \in DOMAIN task : task[i] \in {"saved", "counted", "done"}}

C10_NoPageSilentlyDropped ==
    SplitSucceeded => Len(splitResult.image_paths) >= docPages

(***************************************************************************)
(* C16. The retry executor returns immediately after the deciding          *)
(* invocation: a wrapped call that invoked the operation m times slept     *)
(* exactly m-1 times, once between each pair of consecutive invocations    *)
(* and never after the last one; an upload that was answered with errors   *)
(* and then with 200 returns the identifier of the 200 response.           *)
(***************************************************************************)
C16_SleepsOnlyBetweenInvocations ==
    /\ rpc = "call" => sleeps = calls
    /\ rpc = "sleep" => sleeps + 1 = calls
    /\ (rpc = "done" /\ calls >= 1) => sleeps + 1 = calls
    /\ (op = "upload" /\ rpc = "done" /\ result.ok) =>
          /\ lastResp.status = 200
          /\ result.val = DriveFileId(lastResp.body)

\* an upload refused twice and then answered 200 with {"id":"f1"}
C16_Witness ==
    /\ op = "upload"
    /\ rpc = "done"
    /\ calls = 3
    /\ sleeps = 2
    /\ lastResp = Response(200, "{\"id\":\"f1\"}", TRUE)
    /\ result = Ok("f1")
    /\ remote = {"f1"}

\* r = n / 10000, for a ratio r
IsTenThousandths(r, n) == r.num * 10000 = r.den * n

(***************************************************************************)
(* C17. The delay slept after a transient failure is min(1.5^r, 15)        *)
(* seconds plus jitter, where r is the value of the attempt counter before *)
(* it is incremented for that failure; the counter is incremented by       *)
(* exactly 1 after each retried failure, so the successive base delays are *)
(* 1, 1.5, 2.25, 3.375, 5.0625 and never decrease.                         *)
(***************************************************************************)
C17_DelayIsBackoffOfCounterBeforeIncrement ==
    /\ retries = sleeps
    /\ retries >= 1 =>
          /\ delay.delay_secs = DelaySecs(retries - 1)
          /\ delay.delay_secs = RatMin(Ratio(Pow(3, retries - 1), Pow(2, retries - 1)),
                                       Ratio(15, 1))
    /\ retries = 1 => IsTenThousandths(delay.delay_secs, 10000)
    /\ retries = 2 => IsTenThousandths(delay.delay_secs, 15000)
    /\ retries = 3 => IsTenThousandths(delay.delay_secs, 22500)
    /\ retries = 4 => IsTenThousandths(delay.delay_secs, 33750)
    /\ retries = 5 => IsTenThousandths(delay.delay_secs, 50625)
    /\ retries <= max_retries
    /\ \A r \in 0..(max_retries - 1) :
          r >= 1 => (RatLeq(DelaySecs(r - 1), DelaySecs(r))
                     /\ ~RatLeq(DelaySecs(r), DelaySecs(r - 1)))

\* the fifth sleep: 5.0625 s and a jitter
C17_Witness ==
    /\ rpc = "call"
    /\ retries = 5
    /\ delay.delay_secs = Ratio(81, 16)
    /\ delay.jitter = Ratio(U32(32768, 1), U32_MAX)

\* the executor has slept at least once
HasSlept == sleeps >= 1

(***************************************************************************)
(* C18 as stated. The jitter added to every backoff delay lies in the      *)
(* half-open interval [0, 1): for every 32-bit random value the generator  *)
(* draws, the jitter is at least 0 and strictly less than 1 second.        *)
(***************************************************************************)
C18_JitterInHalfOpenInterval ==
    HasSlept =>
        /\ delay.jitter.num.hi >= 0
        /\ delay.jitter.num.lo >= 0
        /\ JitterBelowOne(delay.jitter)

(***************************************************************************)
(* C18 as amended. The jitter added to every backoff delay lies in the     *)
(* closed interval [0, 1]: it is at least 0 and at most 1 second, and it   *)
(* is exactly 1 when the 32-bit random value drawn is u32::MAX, and below  *)
(* 1 for every other value.                                                *)
(***************************************************************************)
C18_JitterInClosedInterval ==
    HasSlept =>
        /\ delay.jitter.num.hi \in 0..65535
        /\ delay.jitter.num.lo \in 0..65535
        /\ delay.jitter.den = U32_MAX
        /\ JitterBelowOne(delay.jitter) \/ JitterIsOne(delay.jitter)
        /\ JitterIsOne(delay.jitter) <=> delay.jitter.num = U32(65535, 65535)

\* a sleep whose jitter is exactly one second
C18_Witness ==
    /\ HasSlept
    /\ delay.jitter.num = U32(65535, 65535)
    /\ JitterIsOne(delay.jitter)
    /\ ~JitterBelowOne(delay.jitter)
\* the documents an upload has created on the drive
Created == remote \ {FILE_ID}

(***************************************************************************)
(* C20. upload_document on a local path that does not exist fails with a   *)
(* file-not-found error before any network attempt: the remote operation   *)
(* and the retry executor are invoked zero times and no remote artifact is *)
(* created.                                                                *)
(***************************************************************************)
C20_MissingFileFailsBeforeAnyRequest ==
    (op = "upload" /\ ~fileExists) =>
        /\ rpc = "done"
        /\ result = Err("File not found: /tmp/page-0001.png")
        /\ calls = 0
        /\ sleeps = 0
        /\ retries = 0
        /\ lastResp = NoResponse
        /\ Created = {}

C20_Witness ==
    /\ op = "upload"
    /\ ~fileExists
    /\ rpc = "done"
    /\ ~result.ok
    /\ Contains(result.val, "File not found")
    /\ calls = 0
\* split_pdf returned an error after it had created its temp directory
FailedWithTempDir == spc = "done" /\ ~splitResult.ok /\ temp_path_str # ""

\* a path the caller can tell without the result: the one name TempDir::new()
\* gives in every run
PredictableTempDir == TempDirs = {temp_path_str}

(***************************************************************************)
(* C11. When a split job fails after its temp directory has been created,  *)
(* the caller can find the partial output: the error returned carries the  *)
(* temp directory path, or the directory is at a path the caller can       *)
(* predict without the result.                                             *)
(***************************************************************************)
C11_FailedJobTellsItsTempDir ==
    FailedWithTempDir =>
        \/ Contains(splitResult.err, temp_path_str)
        \/ splitResult.temp_dir = temp_path_str
        \/ PredictableTempDir

\* the file the task of page_num has written
FileOf(page_num) == [path |-> OutputPath(page_num), page |-> DocumentPageOf(page_num)]

\* the tasks that returned an error
Failed == {i \in DOMAIN task : task[i] = "failed"}

(***************************************************************************)
(* C12. If the open, render or encode step of any page fails,              *)
(* split_document returns an error and never a partial list of paths, and  *)
(* the image files of pages that did complete remain in the temp           *)
(* directory, which the pipeline does not delete or roll back.             *)
(***************************************************************************)
C12_FailureReturnsErrorAndKeepsFiles ==
    (spc = "done" /\ Failed # {}) =>
        /\ ~splitResult.ok
        /\ splitResult.image_paths = <<>>
        /\ splitResult.err \in {results[i].val : i \in Failed}
        /\ temp_path_str \in TempDirs
        /\ \A i \in DOMAIN task : task[i] = "done" => FileOf(i) \in files

\* page 2 failed to render; the files of pages 1 and 3 are there
C12_Witness ==
    /\ spc = "done"
    /\ totalPages = 3
    /\ task = (0 :> "done" @@ 1 :> "failed" @@ 2 :> "done")
    /\ splitResult.err = "Failed to render page 2: render failed"
    /\ Cardinality(files) = 2
    /\ \E d \in TempDirs : [path |-> d \o "/page-0003.png", page |-> 2] \in files

(***************************************************************************)
(* C13. Once the parallel phase of a split job has started, every page     *)
(* index 0..n-1 is attempted (it ends in a saved file or in a recorded     *)
(* error) before split_document returns, even when another page has        *)
(* already failed: a failure neither cancels nor skips the remaining page  *)
(* tasks, and the error is observed only when results are collected.       *)
(***************************************************************************)
C13_EveryPageAttemptedBeforeReturn ==
    /\ (spc = "done" /\ temp_path_str # "") =>
          /\ DOMAIN task = 0..(totalPages - 1)
          /\ \A i \in DOMAIN task :
                \/ task[i] = "done" /\ results[i] = Ok(OutputPath(i)) /\ FileOf(i) \in files
                \/ task[i] = "failed" /\ ~results[i].ok /\ results[i].val \in PageErrors(i)
    /\ spc = "parallel" => splitResult = NoSplitResult

\* both workers are in the middle of pages 1 and 2 and page 3 has failed: one
\* of the two was taken up after that failure
C13_Witness ==
    /\ spc = "parallel"
    /\ totalPages = 3
    /\ task = (0 :> "saved" @@ 1 :> "saved" @@ 2 :> "failed")
    /\ held[2].binding >= 1
    /\ held[2].binding < held[1].binding
    /\ splitResult = NoSplitResult

\* the tasks that made a binding, and those that made a document
Bound == {i \in DOMAIN held : held[i].binding # 0}
Loaded == {i \in DOMAIN held : held[i].document # 0}

(***************************************************************************)
(* C14. During a split job no native renderer binding or document handle   *)
(* is used by more than one page task: each task creates its own binding   *)
(* and its own document handle, uses only those, and releases them when    *)
(* the task ends, so two concurrently running tasks never hold the same    *)
(* handle.                                                                 *)
(***************************************************************************)
C14_NoHandleSharedBetweenTasks ==
    /\ \A i, j \in Bound : i # j => held[i].binding # held[j].binding
    /\ \A i, j \in Loaded : i # j => held[i].document # held[j].document
    /\ \A i \in DOMAIN held : held[i].live <=> i \in InFlight
    /\ \A i \in InFlight : i \in Bound /\ i \in Loaded
    /\ Cardinality(Bound) = bindings
    /\ Cardinality(Loaded) = documents

\* two tasks in flight, each with a binding and a document of its own
C14_Witness ==
    /\ InFlight = {0, 1}
    /\ held[0].live
    /\ held[1].live
    /\ held[0].binding # held[1].binding
    /\ held[0].document # held[1].document

\* the currentPage values of the events emitted so far
CurrentPages == {events[k].current_page : k \in 1..Len(events)}

(***************************************************************************)
(* C15. In a split job whose n pages all succeed, exactly n progress       *)
(* events are emitted, one per completed page, each with totalPages = n,   *)
(* and their currentPage values are exactly the set {1..n} with no value   *)
(* repeated or skipped, under every interleaving of the workers.           *)
(***************************************************************************)
C15_OneEventPerPageWithDistinctCounts ==
    /\ SplitSucceeded =>
          /\ Len(events) = totalPages
          /\ \A k \in 1..Len(events) : events[k].total_pages = totalPages
          /\ CurrentPages = 1..totalPages
    /\ Cardinality(CurrentPages) = Len(events)
    /\ Len(events) = Cardinality({i \in DOMAIN task : task[i] = "done"})

\* three pages, reported in the order 2, 1, 3
C15_Witness ==
    /\ SplitSucceeded
    /\ totalPages = 3
    /\ Len(events) = 3
    /\ events[1].current_page = 2
    /\ events[2].current_page = 1
    /\ events[3].current_page = 3
\* 1 <= n <= pages, for a u32 n
InPageRange(n, pages) == n.hi = 0 /\ n.lo >= 1 /\ n.lo <= pages

\* extract_pdf_page has ended: it returned, or the thread panicked
ExtractEnded == epc \in {"done", "panicked"}

(***************************************************************************)
(* C19. extract_page fails with an error for every 1-based page number     *)
(* outside [1, pageCount], over the whole range of 32-bit unsigned page    *)
(* numbers (0 and numbers above 65535 included): it never renders some     *)
(* other page and never aborts instead of returning an error.              *)
(***************************************************************************)
C19_PageNumberOutOfRangeFails ==
    (ExtractEnded /\ ~InPageRange(page_number, docPages)) =>
        /\ epc = "done"
        /\ ~extractResult.ok
        /\ files = {}
(***************************************************************************)
(* C21. delete_remote_document treats both a 200 response and a 204 No     *)
(* Content response as success, returning success after a single request   *)
(* with no body parsing; any non-success status yields an error embedding  *)
(* that status.                                                            *)
(***************************************************************************)
C21_Delete200And204SucceedOthersFail ==
    /\ (op = "delete" /\ lastResp.status \in {200, 204}) =>
          /\ rpc = "done"
          /\ result = Ok("")
          /\ sleeps + 1 = calls
    /\ (op = "delete" /\ rpc = "done" /\ lastResp.status \in ErrorStatuses) =>
          /\ ~result.ok
          /\ result.val = "Delete failed (" \o StatusDisplay(lastResp.status) \o "): "
                             \o lastResp.body
          /\ Contains(result.val, Dec(lastResp.status))
    /\ \A st \in {200, 204}, b \in DeletedBodies :
          DeleteOutcome(Response(st, b, TRUE)) = Ok("")
    /\ \A st \in ErrorStatuses, b \in ErrorBodies :
          /\ ~DeleteOutcome(Response(st, b, FALSE)).ok
          /\ Contains(DeleteOutcome(Response(st, b, FALSE)).val, Dec(st))

\* one DELETE, answered 204 No Content with a body that is not JSON
C21_Witness ==
    /\ op = "delete"
    /\ rpc = "done"
    /\ calls = 1
    /\ lastResp = Response(204, "not json", TRUE)
    /\ result = Ok("")
    /\ remote = {}

\* the outcomes of the invocations made so far
Invoked == [k \in 1..calls |-> script[k]]

(***************************************************************************)
(* C28. For every finite sequence of operation outcomes,                   *)
(* execute_with_retry returns the result of its last invocation only: the  *)
(* first success, the first permanent error, or the error of the 6th       *)
(* invocation; errors of earlier attempts are discarded, and a permanent   *)
(* error that follows transient ones stops retrying at once even when      *)
(* retries remain.                                                         *)
(***************************************************************************)
C28_ReturnsResultOfLastInvocation ==
    /\ rpc # "done" => result = NoResult
    /\ rpc = "done" =>
          /\ result = Invoked[calls]
          /\ \/ result.ok
             \/ ~IsRetriable(result.val)
             \/ calls = 6
          /\ \A k \in 1..(calls - 1) : ~Invoked[k].ok /\ IsRetriable(Invoked[k].val)
    /\ \A k \in 1..calls :
          (Invoked[k].ok \/ ~IsRetriable(Invoked[k].val)) => (rpc = "done" /\ k = calls)

\* 429, then 500, then 404: the 404 is returned with three retries left
C28_Witness ==
    /\ rpc = "done"
    /\ SubSeq(script, 1, 3) = <<ERR_429, ERR_500, ERR_404>>
    /\ calls = 3
    /\ retries = 2
    /\ result = ERR_404

(***************************************************************************)
(* C29. The retry counter of execute_with_retry stays within 0..5 in every *)
(* reachable state, and for every sequence of operation outcomes the       *)
(* wrapped call returns after at most 6 invocations, provided each         *)
(* invocation and each sleep itself returns.                               *)
(***************************************************************************)
C29_CounterBoundedAndCallReturns ==
    /\ [](retries \in 0..5 /\ calls <= 6 /\ (calls = 6 => rpc = "done"))
    /\ <>(rpc = "done" /\ calls >= 1 /\ calls <= 6)

\* the sixth invocation has returned a transient error and the call is over
C29_Witness ==
    /\ rpc = "done"
    /\ retries = 5
    /\ calls = 6
    /\ ~result.ok
    /\ IsRetriable(result.val)
    /\ \A k \in 1..6 : script[k] \in {ERR_429, ERR_500}
    /\ script[3] # script[4]
\* round(cnt / total * 100) in exact arithmetic, halves away from zero
RoundedPercent(cnt, total) == (200 * cnt + total) \div (2 * total)

\* what C24 says of one progress event
WellFormedEvent(ev) ==
    /\ ev.current_page >= 1
    /\ ev.current_page <= ev.total_pages
    /\ ev.percentage = RoundedPercent(ev.current_page, ev.total_pages)
    /\ ev.percentage \in 0..100
    /\ ev.current_page = ev.total_pages => ev.percentage = 100

(***************************************************************************)
(* C24. Every progress event satisfies 1 <= currentPage <= totalPages and  *)
(* percentage = round(currentPage / totalPages * 100), a whole number      *)
(* between 0 and 100, with percentage = 100 whenever currentPage =         *)
(* totalPages.                                                             *)
(***************************************************************************)
C24_EventPercentageIsRoundedRatio ==
    \A k \in 1..Len(events) : WellFormedEvent(events[k])

\* the files of the temp directory that are page images
PageFiles == {f \in files : \E i \in DOMAIN task : f.path = OutputPath(i)}

(***************************************************************************)
(* C30. The shared progress counter is increment-only and advisory: it     *)
(* grows by exactly 1 per completed page and only after that page's image  *)
(* file has been written, a failed page never increments it, and in every  *)
(* reachable state counter <= number of page files written <= total pages. *)
(***************************************************************************)
C30_CounterCountsWrittenPages ==
    /\ processed_count = Cardinality({i \in DOMAIN task : task[i] \in {"counted", "done"}})
    /\ \A i \in DOMAIN task : task[i] \in {"counted", "done"} => FileOf(i) \in files
    /\ \A i \in DOMAIN task : task[i] = "failed" => count[i] = 0
    /\ processed_count <= Cardinality(PageFiles)
    /\ Cardinality(PageFiles) <= totalPages

\* two files written, one of them counted, and a page that failed
C30_Witness ==
    /\ spc = "parallel"
    /\ totalPages = 3
    /\ task = (0 :> "saved" @@ 1 :> "failed" @@ 2 :> "counted")
    /\ processed_count = 1
    /\ Cardinality(files) = 2

(***************************************************************************)
(* Render dimensions and the final path of extract_pdf_page                *)
(***************************************************************************)

\* the renderer has been handed a configuration
Configured == render_config # NoConfig

\* w = k * d for the u32 d, as exact integers
IsProduct(w, k, d) ==
    /\ w >= 0
    /\ w % k = 0
    /\ U32((w \div k) \div 65536, (w \div k) % 65536) = d

\* C23: for every u32 dpi d, the render width is 8*d, the height is 12*d, and
\* so width : height = 2 : 3.
C23_DimensionsAreEightAndTwelveTimesDpi ==
    Configured =>
        /\ IsProduct(render_config.width, 8, dpi)
        /\ IsProduct(render_config.height, 12, dpi)
        /\ render_config.width % 2 = 0
        /\ render_config.height % 3 = 0
        /\ render_config.width \div 2 = render_config.height \div 3

\* C26: a successful extract_pdf_page returns output_path itself when it ends
\* with ".png" and output_path followed by ".png" otherwise; the returned path
\* ends with ".png", it is the one file written, and normalising it again
\* gives the same path.
C26_FinalPathIsNormalizedAndWritten ==
    (epc = "done" /\ extractResult.ok) =>
        /\ EndsWith(output_path, ".png") => extractResult.val = output_path
        /\ ~EndsWith(output_path, ".png") => extractResult.val = output_path \o ".png"
        /\ EndsWith(extractResult.val, ".png")
        /\ {f.path : f \in files} = {extractResult.val}
        /\ FinalPath(extractResult.val) = extractResult.val

C26_Witness ==
    /\ epc = "done"
    /\ extractResult.ok
    /\ output_path = "/tmp/out/page.png"
    /\ extractResult.val = "/tmp/out/page.png"
    /\ \E f \in files : f.path = "/tmp/out/page.png"

(***************************************************************************)
(* Content type by final extension                                         *)
(***************************************************************************)

\* the final extension of a file named stem followed by suffix, lower-cased;
\* "" when it has none
FinalExtensionOf(stem, suffix) ==
    IF suffix = ""
    THEN CASE stem = "file.tar" -> "tar"
           [] stem = "x.png" -> "png"
           [] OTHER -> ""
    ELSE IF stem = "" THEN ""
    ELSE ToLower(SubSeq(suffix, 2, Len(suffix)))

\* C25: the content type depends only on the final extension of the local
\* path, whatever its letter case: png gives image/png, jpg and jpeg give
\* image/jpeg, pdf gives application/pdf, and any other or no final extension
\* (file.tar.gz, .hidden, none) gives application/octet-stream.
C25_MimeTypeByFinalExtensionAnyCase ==
    mime_type # "" =>
        \A d \in MimeDirs, s \in MimeStems, x \in MimeSuffixes :
            file_path = d \o s \o x =>
                LET ext == FinalExtensionOf(s, x)
                IN  /\ ext = "png" => mime_type = "image/png"
                    /\ ext \in {"jpg", "jpeg"} => mime_type = "image/jpeg"
                    /\ ext = "pdf" => mime_type = "application/pdf"
                    /\ ext \notin {"png", "jpg", "jpeg", "pdf"}
                           => mime_type = "application/octet-stream"

C25_Witness ==
    /\ file_path = "/test/IMAGE.PNG"
    /\ mime_type = "image/png"

(***************************************************************************)
(* The lookup of the native library                                        *)
(***************************************************************************)

\* C27: the lookup probes the candidate paths in their fixed order and
\* returns the first one that exists; when none exists it fails with an
\* error that lists every probed path.
C27_FirstExistingCandidateOrAllListed ==
    libResult # NoResult =>
        LET paths == SearchPaths(target_os, resource_dir, exe_dir)
        IN  IF \E i \in 1..Len(paths) : paths[i] \in existing
            THEN /\ libResult.ok
                 /\ \E i \in 1..Len(paths) :
                        /\ paths[i] = libResult.val
                        /\ paths[i] \in existing
                        /\ \A j \in 1..(i - 1) : paths[j] \notin existing
            ELSE /\ ~libResult.ok
                 /\ \A i \in 1..Len(paths) :
                        Contains(libResult.val, "\"" \o paths[i] \o "\"")

C27_Witness ==
    /\ libResult = Ok("resources/libpdfium.so")
    /\ "src-tauri/resources/libpdfium.so" \in existing
    /\ "/usr/bin/libpdfium.so" \in existing
    /\ resource_dir = Ok(RESOURCE_DIR)

(***************************************************************************)
(* cleanup_temp_dir                                                        *)
(***************************************************************************)

LowestFailed == CHOOSE i \in Failed : \A j \in Failed : i <= j

\* C31: when pages of a split job fail, split_pdf returns the error of the
\* failed page with the lowest page index, whatever the order in which the
\* tasks ended, and returns nothing of the other failed pages.
C31_ErrorOfLowestFailedIndex ==
    (spc = "done" /\ Failed # {}) =>
        /\ ~splitResult.ok
        /\ splitResult.err = results[LowestFailed].val
        /\ splitResult.image_paths = <<>>

\* pages 1 and 2 both failed, page 2 first, and the error is that of page 1
C31_Witness ==
    /\ spc = "done"
    /\ {0, 1} \subseteq Failed
    /\ held[1].binding >= 1
    /\ held[0].binding > held[1].binding
    /\ results[0].val # results[1].val
    /\ splitResult.err = results[0].val

\* C32: when the native library is not found, split_pdf returns its error
\* with no temp directory made, no page task started, no file written and no
\* progress event emitted.
C32_NoLibraryNoEffect ==
    ~libFound =>
        /\ temp_path_str = ""
        /\ task = <<>>
        /\ files = {}
        /\ events = <<>>
        /\ bindings = 0
        /\ spc = "done" => (~splitResult.ok /\ splitResult.err = LIBRARY_ERROR)

C32_Witness ==
    /\ ~libFound
    /\ spc = "done"
    /\ splitResult.err = LIBRARY_ERROR
    /\ temp_path_str = ""
    /\ totalPages >= 1

(***************************************************************************)
(* The cap of the backoff                                                  *)
(***************************************************************************)

\* C35: with max_retries = 5 the exponential term of every delay slept is
\* 1.5^r for an r in 0..4, at most 5.0625 s and below the cap of 15 s, so
\* the cap never decides a delay.
C35_CapNeverBinds ==
    /\ \A r \in 0..(max_retries - 1) : ~RatLeq(Ratio(15, 1), Powi(r))
    /\ sleeps >= 1 =>
          /\ sleeps - 1 \in 0..4
          /\ delay.delay_secs = Powi(sleeps - 1)
          /\ RatLeq(delay.delay_secs, Ratio(50625, 10000))
          /\ ~RatLeq(Ratio(15, 1), delay.delay_secs)

\* the call gave up after its fifth sleep, of 1.5^4 s
C35_Witness ==
    /\ rpc = "done"
    /\ sleeps = 5
    /\ calls = 6
    /\ delay.delay_secs = Powi(4)

(***************************************************************************)
(* What the attempts of one upload send, and a delete that took effect     *)
(***************************************************************************)

\* C33: within one upload call every attempt sends the same generated name
\* and the same bytes: the file is read once and the name is made once,
\* before the first attempt, and neither changes between attempts, whatever
\* happens to the local file meanwhile.
C33_EveryAttemptSendsSameNameAndBytes ==
    op = "upload" =>
        /\ Len(posts) = calls
        /\ names_made <= 1
        /\ \A k \in 1..Len(posts) :
              /\ posts[k] = Post(file_name, file_content)
              /\ posts[k] = posts[1]
              /\ posts[k].name = UuidName(0)
              /\ posts[k].content = FileBytes(0)

\* three attempts, the local file rewritten meanwhile
C33_Witness ==
    /\ op = "upload"
    /\ calls = 3
    /\ disk = 1
    /\ posts[3] = posts[1]
    /\ posts[3].content # FileBytes(disk)

\* C34: a delete call can fail although its delete took effect: once an
\* attempt has removed the document and been answered as a transient
\* failure, every later attempt is refused, a not-found answer ends the
\* call, and the call returns an error while the document no longer exists.
C34_DeleteThatTookEffectReportsFailure ==
    (op = "delete" /\ effected >= 1 /\ ~lastResp.acted) =>
        /\ FILE_ID \notin remote
        /\ calls >= 2
        /\ lastResp \in Refusals
        /\ rpc = "done" => ~result.ok
        /\ (lastResp.status = 404 /\ lastResp.body \in {"", "Access denied"}) =>
              /\ rpc = "done"
              /\ result = Err(FailureText("Delete", lastResp))

\* 503 for a delete that was carried out, then 404
C34_Witness ==
    /\ op = "delete"
    /\ rpc = "done"
    /\ calls = 2
    /\ effected = 1
    /\ lastResp = Response(404, "", FALSE)
    /\ result = Err("Delete failed (404 Not Found): ")
    /\ remote = {}

(***************************************************************************)
(* Claims about the token file                                             *)
(***************************************************************************)

\* a step of load_stored_tokens
LoadStep == auth_op' = "load" /\ clock' = clock

\* a step in which refresh_access_token runs from its call to its return
RefreshStep == auth_op' = "refresh" /\ clock' = clock

\* the step of start_oauth_flow that exchanges the code and stores the tokens
ExchangeStep == flow_pc = "exchange" /\ flow_pc' = "done"

\* the tokens load_stored_tokens is to return for a file of stored tokens:
\* the stored strings, and the time from now to expires_at, 0 when that time
\* has come
LoadedFrom(file, now, tokens) ==
    /\ tokens.access_token = file.access_token
    /\ tokens.refresh_token = file.refresh_token
    /\ IF U64Less(now, file.expires_at)
       THEN U64Add(now, tokens.expires_in) = [sum |-> file.expires_at, overflow |-> FALSE]
       ELSE tokens.expires_in = U64_ZERO

\* C37 as stated: load_stored_tokens returns no tokens when no token file
\* exists, and whenever the file exists and is read it returns the stored
\* access and refresh tokens unchanged with expires_in = expires_at - now when
\* expires_at > now and 0 otherwise
C37_Original ==
    [][LoadStep /\ ~(~auth_result'.ok /\ auth_result'.val = FILE_READ_ERROR)
       => IF token_file.kind = "none"
          THEN auth_result'.ok /\ ~auth_result'.val.some
          ELSE /\ auth_result'.ok
               /\ auth_result'.val.some
               /\ LoadedFrom(token_file, NowAt(clock), auth_result'.val.tokens)]_vars

\* C37: load_stored_tokens returns no tokens when no token file exists, an
\* error when the file is not the JSON of stored tokens, and when it reads
\* stored tokens it returns the access and refresh tokens unchanged with
\* expires_in = expires_at - now when expires_at > now and 0 otherwise, never
\* a negative or wrapped value
C37_LoadReturnsStoredTokensOrError ==
    [][LoadStep
       => /\ token_file.kind = "none" => auth_result'.ok /\ ~auth_result'.val.some
          /\ token_file.kind = "malformed" => ~auth_result'.ok
          /\ token_file.kind = "tokens" /\ auth_result'.ok
             => /\ auth_result'.val.some
                /\ LoadedFrom(token_file, NowAt(clock), auth_result'.val.tokens)
          /\ token_file' = token_file]_vars

\* tokens that expired an hour or more ago were loaded with expires_in 0
C37_Witness ==
    /\ auth_op = "load"
    /\ auth_result.ok
    /\ auth_result.val.some
    /\ token_file.kind = "tokens"
    /\ U64Less(token_file.expires_at, NowAt(clock))
    /\ clock > 0
    /\ auth_result.val.tokens.expires_in = U64_ZERO
    /\ auth_result.val.tokens.refresh_token = "1//new-refresh"

\* C38: a successful refresh_access_token returns and stores the refresh
\* token of the response when the response carries one and otherwise the one
\* the caller passed in; through a run of successful refreshes that starts
\* from a non-empty refresh token the stored refresh token is the one issued
\* last, and a response without one leaves the stored one as it was
C38_RefreshKeepsLatestRefreshToken ==
    /\ [](streak.active
          => token_file.kind = "tokens" /\ token_file.refresh_token = streak.latest)
    /\ [][RefreshStep /\ auth_result'.ok
          => LET issued == token_resp'.json.refresh_token
                 kept == IF issued.some THEN issued.val ELSE auth_arg'
             IN  /\ auth_result'.val.refresh_token = kept
                 /\ token_file'.kind = "tokens"
                 /\ token_file'.refresh_token = kept
                 /\ streak.active /\ streak'.active /\ ~issued.some
                    => token_file'.refresh_token = token_file.refresh_token]_vars

\* the second refresh of a run, called with the token the first was issued,
\* got a response without a refresh token, and the token issued before is still the stored one
C38_Witness ==
    /\ auth_op = "refresh"
    /\ streak.active
    /\ streak.chained
    /\ auth_arg = "1//new-refresh"
    /\ auth_result.ok
    /\ ~token_resp.json.refresh_token.some
    /\ token_file.refresh_token = "1//new-refresh"
    /\ auth_result.val.refresh_token = "1//new-refresh"

\* the token endpoint answered with a failure: no answer, a status that is not
\* a success, or a body that is not a TokenResponse
FailedAnswer(resp) == ~IsSuccess(resp.status) \/ ~resp.json.valid

\* C39: a token refresh or code exchange that fails (non-success response or
\* undecodable body) returns an error and leaves the token file unchanged, so
\* what load_stored_tokens returns afterwards is what it returned before
C39_FailureLeavesTokenFile ==
    [][(RefreshStep \/ ExchangeStep) /\ FailedAnswer(token_resp')
       => /\ ~auth_result'.ok
          /\ token_file' = token_file
          /\ LoadOutcomes(token_file', NowAt(clock'))
                = LoadOutcomes(token_file, NowAt(clock))]_vars

\* a refresh was answered with 400 and the stored tokens are still there
C39_Witness ==
    /\ auth_op = "refresh"
    /\ token_resp.status = 400
    /\ ~auth_result.ok
    /\ token_file.kind = "tokens"
    /\ token_file.access_token = "ya29.old-access"

(***************************************************************************)
(* Claims about the authorization flow                                     *)
(***************************************************************************)

\* the request line carries an authorization code: extract_code finds one
CarriesCode(request_line) == ExtractCode(request_line).some

LastAnswer == answers[Len(answers)]

\* a step of start_oauth_flow
FlowStep ==
    \/ flow_pc \in {"bound", "listening", "exchange"}
    \/ flow_pc \in {"idle", "done"} /\ flow_pc' \in {"bound", "done"} /\ auth_op' = "flow"

\* C36: in the authorization flow the browser is opened only after the
\* callback port is bound; every request whose request line carries no code is
\* answered 404 and the flow keeps listening, the first request that carries a
\* code is answered 200 and no connection is accepted after it; the code
\* exchange runs exactly once per flow, only after that request and with its
\* code, and the flow changes the token file only if the exchange succeeded
C36_FlowOrder ==
    /\ [](browser_opened /\ flow_pc \in {"listening", "exchange"} => port_bound)
    /\ [][~browser_opened /\ browser_opened' => port_bound /\ port_bound']_vars
    /\ [](\A i \in 1..Len(answers) :
             /\ answers[i].status = IF CarriesCode(answers[i].line) THEN 200 ELSE 404
             /\ answers[i].status = 200 => i = Len(answers))
    /\ [](Len(answers) > 0 /\ LastAnswer.status = 404 /\ flow_pc # "done"
          => flow_pc = "listening" /\ port_bound)
    /\ [][answers' # answers /\ answers' # <<>>
          => /\ flow_pc = "listening"
             /\ answers = <<>> \/ LastAnswer.status = 404
             /\ Len(answers') = Len(answers) + 1]_vars
    /\ [](/\ Len(exchanges) <= 1
          /\ Len(exchanges) = 1
             => /\ Len(answers) > 0
                /\ LastAnswer.status = 200
                /\ exchanges[1] = ExtractCode(LastAnswer.line).val
                /\ flow_pc = "done")
    /\ [](flow_pc = "done" /\ Len(answers) > 0 /\ LastAnswer.status = 200
          => Len(exchanges) = 1)
    /\ [][FlowStep /\ token_file' # token_file
          => /\ ExchangeStep
             /\ IsSuccess(token_resp'.status)
             /\ token_resp'.json.valid]_vars

\* a flow answered a POST whose target has a code with 404, then the callback
\* with 200, exchanged the code of the callback and stored the tokens
C36_Witness ==
    /\ flow_pc = "done"
    /\ browser_opened
    /\ Len(answers) = 2
    /\ answers[1].line = "POST /?code=abc123 HTTP/1.1\r\n"
    /\ answers[1].status = 404
    /\ answers[2].status = 200
    /\ exchanges = <<"4/0AcvDMr">>
    /\ auth_result.ok
    /\ token_file.kind = "tokens"
    /\ token_file.access_token = "ya29.new-access"
====
